---- MODULE Spec2Model ----
(***************************************************************************)
(* CRAB dataset builder: the build verification pipeline of                *)
(* pull_requests.py (process_repos / process_repo / process_pull) and the  *)
(* build handlers of handlers.py, as a state machine.                      *)
(*                                                                         *)
(* One action per step of the code.  Every call that leaves the process    *)
(* (GitHub API, git, docker) draws its outcome with \E: it returns, it     *)
(* raises one of the exceptions the code raises there, it raises some      *)
(* other exception ("Crash"), or the operator interrupts it ("Interrupt",  *)
(* a KeyboardInterrupt, which is no Exception).                            *)
(***************************************************************************)
EXTENDS Integers, Sequences, FiniteSets, TLC

\* ------------------------------------------------------------------ bounds
\* pull requests a repository lists
NumPRs == 2
\* pull requests of one batch that is_pull_good accepts
MaxGood == 1
\* entries of the cache file given with --cache
MaxCacheLen == 1
\* tokens of a build manifest
MaxManifestLen == 2
\* coverage reports get_jacoco_report_paths finds
MaxReports == 1

\* the value of --max-workers in a batch run in pool mode
NWorkers == 2

\* summary blocks in the output of one Maven test command
MaxBlocks == 3

\* lines in the output of one command
MaxLines == 4

\* seconds of the alarm compile_repo and test_repo arm
ALARM_SECONDS == 3600

\* ------------------------------------------------------------------ inputs
\* the 'name' column of the csv file; the second one is on the exclusion list
RepoNames == <<"octo/app", "alibaba/druid">>

EXCLUSION_LIST ==
    { "edmcouncil/idmp", "aosp-mirror/platform_frameworks_base", "alibaba/druid",
      "hashgraph/hedera-mirror-node", "Starcloud-Cloud/starcloud-llmops" }

\* a file name is its stem and its extension; endswith('.java') reads the extension
JavaFile == [stem |-> "src/main/java/App", ext |-> ".java"]
DocFile == [stem |-> "README", ext |-> ".md"]
CommentedFiles == {JavaFile, DocFile}

\* a test that takes every commented file for code
AnyFileIsCode(f) == TRUE

EndsWithJava(f) == f.ext = ".java"

\* the tokens of a manifest the code looks for
Tokens ==
    { "junit", "testImplementation", "<plugins>", "</project>",
      "<artifactId>jacoco-maven-plugin</artifactId>", "id 'jacoco'" }

\* the snippets the injectors insert: each contains its family's signature
JACOCO_PLUGIN == "jacoco_plugin"
JACOCO_SNIPPET == "jacoco_snippet"

SeqsUpTo(S, n) == UNION { [1..k -> S] : k \in 0..n }

Manifests == SeqsUpTo(Tokens, MaxManifestLen)

\* the one manifest the batch specification checks out
BatchManifests == { <<"junit", "<plugins>">> }

\* the build files a checkout may list at its root; the batches list a pom.xml or none
Listings == SUBSET {"pom.xml", "build.gradle"}

BatchListings == { {}, {"pom.xml"} }

\* the coverage reports of a checkout of the batches
BatchReports == << "target/site/jacoco/jacoco.xml" >>

\* what the repositories of a pool hold: the manifests, the root listings, and how
\* many coverage reports at most
ManifestsOf(p) == IF p = "batch" THEN BatchManifests ELSE Manifests

ListingsOf(p) == IF p = "batch" THEN BatchListings ELSE Listings

ReportsOf(p) == IF p = "batch" THEN Len(BatchReports) ELSE MaxReports

\* the pull requests of a repository that is_pull_good may accept: any one in the
\* batches, the first one listed otherwise
GoodPRsOf(p) == IF p = "batch" THEN 1..NumPRs ELSE {1}

\* "needle in content", for the needles the code searches
Contains(content, needle) ==
    \E i \in 1..Len(content) :
        \/ content[i] = needle
        \/ content[i] = JACOCO_PLUGIN
             /\ needle \in {"<artifactId>jacoco-maven-plugin</artifactId>"}
        \/ content[i] = JACOCO_SNIPPET /\ needle \in {"id 'jacoco'"}

\* ------------------------------------------------------------------ errors
SetupExceptions ==
    { "NoDiffsBeforeError", "NoDiffsAfterError", "NoLinesForCommentError",
      "CommentedFileNotInOriginalChanges", "CantCloneRepoError",
      "CantEnsureFullHistoryError", "CantFetchPRError", "CantCheckoutCommitError",
      "MultipleFilesError", "NotValidDirectory", "CantFindBuildFile" }

HandlerExceptions ==
    { "NoTestsFoundError", "FailedToCompileError", "FailedToTestError",
      "NoTestResultsToExtractError", "CantExecJacoco", "CantInjectJacoco",
      "NoCoverageReportFound", "FileNotCovered", "GradleAggregateReportNotFound",
      "NotJavaFileError", "NoPackageFoundError", "FileNotFoundInRepoError" }

\* any other Exception, and KeyboardInterrupt
OtherExceptions == {"Crash", "Interrupt"}

\* the attribute a subclass without its own reason_for_failure inherits
GenericReason(kind) == "Generic handler expection (this shouldn't appear)"

\* the class attribute reason_for_failure
ReasonForFailure(kind) ==
    CASE kind = "NoDiffsBeforeError" -> "Couldn't get the diffs before the first commit"
      [] kind = "NoDiffsAfterError" -> "Couldn't get the diffs after the last comment"
      [] kind = "NoLinesForCommentError" -> "There are no line reference for the comment"
      [] kind = "CommentedFileNotInOriginalChanges" ->
            "Commented file is not part of the original PR (most like due to a merge of another branch)"
      [] kind = "CantCloneRepoError" -> "Couldn't clone the repository"
      [] kind = "CantEnsureFullHistoryError" ->
            "Couldn't ensure the full history of the repo (fetch --unshallow)"
      [] kind = "CantFetchPRError" -> "Couldn't fetch the PR's merge commit"
      [] kind = "CantCheckoutCommitError" ->
            "Coudln't checkout the PR's merge commit (even after fetching the pull/<pr_number>/merge)"
      [] kind = "MultipleFilesError" ->
            "When requesting the contents of a file, a list of ContentFile was returned"
      [] kind = "NotValidDirectory" -> "The directory is not valid"
      [] kind = "CantFindBuildFile" -> "Couldn't find the build file in the directory"
      [] kind = "NoTestsFoundError" -> "No tests found"
      [] kind = "FailedToCompileError" -> "Failed to compile"
      [] kind = "FailedToTestError" -> "Failed to test"
      [] kind = "NoTestResultsToExtractError" -> "Failed to extract test results"
      [] kind = "CantExecJacoco" -> "Couldn't execute jacoco"
      [] kind = "CantInjectJacoco" -> "Couldn't inject jacoco in the build file"
      [] kind = "NoCoverageReportFound" -> "No coverage report was found"
      [] kind = "FileNotCovered" -> "Commented file from the PR was not covered"
      [] kind = "GradleAggregateReportNotFound" ->
            "Couldn't find the aggregate report (with gradle it's messy)"
      [] kind = "NotJavaFileError" -> "File that was checked for coverage was not java file"
      [] kind = "NoPackageFoundError" -> "Java file did not contain a valid package name"
      [] kind = "FileNotFoundInRepoError" ->
            "Commented file not found in repo (likely renamed or deleted)"

PLACEHOLDER == "Was still being processed"
VALID == "Valid PR!"
VALID_NOT_COVERED == "Valid PR! But not covered :("
VALID_NOT_CODE == "Valid PR! But isn't code related though."

\* ------------------------------------------------------------------ state
VARIABLES
    pc,               \* the statement the main process is at
    exc,              \* the exception propagating, "none" when there is none
    df,               \* the repository names read from the csv file
    pool,             \* which checkouts this batch works on: "any" or "batch"
    budget,           \* how many more pull requests is_pull_good accepts
    cache_file,       \* the entries of the file given with --cache
    cache,            \* repo name -> (PR number -> entry)
    already_seen_prs, \* process_repo's copy of the cached PR numbers
    dataset,          \* dataset.entries
    output,           \* the entries of the output file, as last written
    repo_i,           \* index in df of the repository at hand
    pr_i,             \* number of the pull request at hand
    commented_file_path, \* process_pull's commented_file_path
    step,             \* index in setup_steps
    build_handler,    \* "none", or the type of the handler of this run
    container,        \* the container of the handler of this run
    alarm,            \* seconds the SIGALRM timer is armed for, 0 when disarmed
    updates,          \* the handlers' updates dicts, one per handler class
    committed,        \* content of the build file in the commit checked out
    manifest,         \* content of the build file in the working tree
    og_content,       \* generate_coverage_report's copy of the build file
    already_injected, \* generate_coverage_report's already_injected_manually
    report_i,         \* how many coverage reports check_coverage has gone through
    run,              \* what this verification run has done so far (observation only)
    max_workers,      \* args.max_workers, 0 when the option is not given
    repo_names_iter,  \* index in repo_names of the next name the iterator yields
    free_positions,   \* the progress-bar positions no worker holds
    futures,          \* the futures submitted so far, each with the state of its worker
    future_to_repo,   \* the futures (indices of futures) still in the dict
    done,             \* the futures of wait()'s done set not yet iterated over
    to_drain,         \* the futures the except clause has still to go through
    test_results,     \* what the test command left to extract: the summary blocks of its
                      \* output (Maven), the counters of index.html (Gradle)
    exec_output,      \* the lines of exec_result.output, as the command printed them
    test_output,      \* test_repo's local output, the lines extract_test_numbers is given
    checkout          \* the directory get_build_handler is called on, where it runs alone

vars ==
    << pc, exc, df, pool, budget, cache_file, cache, already_seen_prs, dataset, output,
       repo_i, pr_i, commented_file_path, step, build_handler, container, alarm, updates,
       committed, manifest, og_content, already_injected, report_i, run, max_workers,
       repo_names_iter, free_positions, futures, future_to_repo, done, to_drain,
       test_results, exec_output, test_output, checkout >>

\* variables of the batch loop, of one verification run, of the handler
batch_vars == << df, pool, cache_file, cache, output >>
parallel_vars ==
    << max_workers, repo_names_iter, free_positions, futures, future_to_repo, done,
       to_drain >>
pull_vars == << commented_file_path, step, build_handler >>
handler_vars ==
    << container, alarm, updates, committed, manifest, og_content, already_injected, report_i,
       test_results, exec_output, test_output, checkout >>
\* the variables of process_repos and of what it calls in the main process
sequential_vars ==
    << budget, already_seen_prs, repo_i, pr_i, pull_vars, handler_vars, run >>

\* ------------------------------------------------------------------ entries
\* Optional[bool] fields hold "None", "True" or "False"
NewEntry(id, repo, number) ==
    [ id |-> id, repo |-> repo, pr_number |-> number,
      is_covered |-> "None", is_code_related |-> "None", successful |-> "None",
      build_system |-> "", reason_for_failure |-> PLACEHOLDER,
      last_cmd_error_msg |-> "", comments |-> <<>>, coverage |-> {} ]

\* an entry a previous run wrote
FileEntry(repo, number, reason) ==
    [ NewEntry(100 + number, repo, number) EXCEPT
        !.reason_for_failure = reason,
        !.successful = IF reason = PLACEHOLDER THEN "None" ELSE "True",
        !.is_code_related = IF reason = PLACEHOLDER THEN "None" ELSE "False" ]

\* the output of a batch that stopped after its k-th pull request: the entries of the
\* first k pull requests of the first repository, the last one finished or still the
\* placeholder
CacheFileOf(k, last) ==
    [ n \in 1..k |-> FileEntry(RepoNames[1], n, IF n = k THEN last ELSE VALID_NOT_CODE) ]

CacheFiles ==
    { CacheFileOf(k, last) :
        k \in 0..(IF MaxCacheLen < NumPRs THEN MaxCacheLen ELSE NumPRs),
        last \in {VALID_NOT_CODE, PLACEHOLDER} }

\* a from_json that keeps the entries still in progress
FromJsonKeepsAll(file) == file

\* Dataset.from_json with keep_still_in_progress = False
FromJson(file) == SelectSeq(file, LAMBDA e : e.reason_for_failure # PLACEHOLDER)

RECURSIVE BuildCache(_)
\* cache[entry.repo][entry.pr_number] = entry, for the entries in file order
BuildCache(entries) ==
    IF entries = <<>> THEN <<>>
    ELSE LET rest == BuildCache(SubSeq(entries, 1, Len(entries) - 1))
             e == entries[Len(entries)]
             old == IF e.repo \in DOMAIN rest THEN rest[e.repo] ELSE <<>>
             new == [n \in DOMAIN old \cup {e.pr_number} |->
                        IF n = e.pr_number THEN e ELSE old[n]]
         IN [r \in DOMAIN rest \cup {e.repo} |-> IF r = e.repo THEN new ELSE rest[r]]

RECURSIVE SetToSeq(_)
SetToSeq(S) ==
    IF S = {} THEN <<>>
    ELSE LET x == CHOOSE y \in S : TRUE IN <<x>> \o SetToSeq(S \ {x})

RECURSIVE CacheValues(_, _)
\* the entries of the cache, repository by repository
CacheValues(c, repos) ==
    IF repos = <<>> THEN <<>>
    ELSE LET r == repos[1]
         IN [i \in 1..Cardinality(DOMAIN c[r]) |-> c[r][SetToSeq(DOMAIN c[r])[i]]]
              \o CacheValues(c, Tail(repos))

\* cache.get(repo, set()) and 'in': a lookup that leaves the dict as it is
CacheAfterLookup(c, repo) == c

\* pr.number in cache.get(repo.full_name, set())
InCache(c, repo, number) == repo \in DOMAIN c /\ number \in DOMAIN c[repo]

\* a process_repo that skips no pull request
NeverSeen(number, seen) == FALSE

\* pr.number in already_seen_prs
IsAlreadySeen(number, seen) == number \in seen

\* what the run has done so far
NewRun ==
    [ started |-> <<>>, returned |-> {}, timeouts |-> {}, raised_in |-> "none",
      n_compile |-> 0, n_test |-> 0, n_inject |-> 0, n_cov |-> 0,
      cov_exits |-> <<>>, cov_before |-> <<>>, cov_result |-> "none",
      non_code |-> FALSE, entered |-> FALSE, n_setup |-> 0, executing |-> {},
      checked_out |-> FALSE, reset |-> FALSE, test_dirs |-> {}, test_exit |-> "none",
      n_covering |-> 0, reports_read |-> FALSE ]

cur == Len(dataset)

\* ------------------------------------------------------------------ batch
\* __main__: the cache is read from the file given with --cache
LoadCache ==
    /\ pc = "main"
    /\ cache' = BuildCache(FromJson(cache_file))
    /\ pc' = IF max_workers # 0 THEN "process_repos_parallel" ELSE "process_repos"
    /\ UNCHANGED parallel_vars
    /\ UNCHANGED << exc, df, pool, budget, cache_file, already_seen_prs, dataset, output,
                    repo_i, pr_i, pull_vars, handler_vars, run >>

\* process_repos: the cached entries go first into the dataset
ProcessReposStart ==
    /\ pc = "process_repos"
    /\ IF DOMAIN cache # {}
         THEN /\ dataset' = dataset \o CacheValues(cache, SetToSeq(DOMAIN cache))
              /\ output' = dataset'
         ELSE UNCHANGED << dataset, output >>
    /\ repo_i' = 1
    /\ pc' = "repos_loop"
    /\ UNCHANGED parallel_vars
    /\ UNCHANGED << exc, df, pool, budget, cache_file, cache, already_seen_prs,
                    pr_i, pull_vars, handler_vars, run >>

\* process_repos: the loop over the rows of the csv file
ReposLoop ==
    /\ pc = "repos_loop"
    /\ IF repo_i > Len(df)
         THEN /\ pc' = "flush"
              /\ UNCHANGED repo_i
         ELSE IF df[repo_i] \in EXCLUSION_LIST
                THEN /\ repo_i' = repo_i + 1
                     /\ UNCHANGED pc
                ELSE /\ pc' = "process_repo"
                     /\ UNCHANGED repo_i
    /\ UNCHANGED parallel_vars
    /\ UNCHANGED << exc, batch_vars, budget, already_seen_prs, dataset,
                    pr_i, pull_vars, handler_vars, run >>

\* process_repo: g.get_repo, the cached PR numbers, repo.get_pulls
ProcessRepoStart ==
    /\ pc = "process_repo"
    /\ \E o \in {"ok"} \cup OtherExceptions :
         IF o = "ok"
           THEN /\ already_seen_prs' =
                      IF df[repo_i] \in DOMAIN cache THEN DOMAIN cache[df[repo_i]] ELSE {}
                /\ pr_i' = 1
                /\ pc' = "prs_loop"
                /\ UNCHANGED exc
           ELSE /\ exc' = o
                /\ pc' = "flush"
                /\ UNCHANGED << already_seen_prs, pr_i >>
    /\ UNCHANGED parallel_vars
    /\ UNCHANGED << batch_vars, budget, dataset, repo_i, pull_vars, handler_vars, run >>

\* process_repo: the loop over the pull requests; a cached one is skipped
PrsLoop ==
    /\ pc = "prs_loop"
    /\ IF pr_i > NumPRs
         THEN /\ repo_i' = repo_i + 1
              /\ pc' = "repos_loop"
              /\ UNCHANGED pr_i
         ELSE IF IsAlreadySeen(pr_i, already_seen_prs)
                THEN /\ pr_i' = pr_i + 1
                     /\ UNCHANGED << pc, repo_i >>
                ELSE /\ pc' = "process_pull"
                     /\ UNCHANGED << pr_i, repo_i >>
    /\ UNCHANGED parallel_vars
    /\ UNCHANGED << exc, batch_vars, budget, already_seen_prs, dataset, pull_vars, handler_vars, run >>

\* a process_repo whose try catches nothing
EveryExceptionPasses(e) == e # "none"

\* process_repo: the exceptions that except Exception does not catch
PassesExceptException(e) == e = "Interrupt"

\* process_repo: what the try around process_pull does with its outcome; the locals
\* of process_pull are gone
PullReturn ==
    /\ pc = "pull_return"
    /\ IF PassesExceptException(exc)
         THEN /\ pc' = "flush"
              /\ UNCHANGED << exc, pr_i >>
         ELSE /\ exc' = "none"
              /\ pr_i' = pr_i + 1
              /\ pc' = "prs_loop"
    /\ commented_file_path' = JavaFile
    /\ step' = 1
    /\ build_handler' = "none"
    /\ og_content' = <<>>
    /\ already_injected' = FALSE
    /\ report_i' = 0
    /\ run' = NewRun
    /\ container' = "none"
    /\ UNCHANGED << parallel_vars, test_results, exec_output, test_output, checkout >>
    /\ UNCHANGED << batch_vars, budget, already_seen_prs, dataset, repo_i, alarm,
                    updates, committed, manifest >>

\* __main__: the finally that writes the dataset
Flush ==
    /\ pc = "flush"
    /\ output' = dataset
    /\ pc' = "done"
    /\ UNCHANGED parallel_vars
    /\ UNCHANGED << exc, df, pool, budget, cache_file, cache, already_seen_prs, dataset,
                    repo_i, pr_i, pull_vars, handler_vars, run >>

\* ------------------------------------------------------------------ process_pull
\* the SetupExceptions a setup step raises
SetupErrors(s) ==
    CASE s = 1 -> {"NoDiffsBeforeError"}
      [] s = 2 -> {"NoDiffsAfterError"}
      [] s = 3 -> {"CantCloneRepoError"}
      [] s = 4 -> { "MultipleFilesError", "CantEnsureFullHistoryError", "CantFetchPRError",
                    "CantCheckoutCommitError" }
      [] s = 5 -> {"CommentedFileNotInOriginalChanges", "NoLinesForCommentError"}
      [] s \in {6, 8} ->
            {"CantEnsureFullHistoryError", "CantFetchPRError", "CantCheckoutCommitError"}
      [] s \in {7, 9} -> {}

N_SETUP_STEPS == 9

\* except SetupException: the entry gets the reason of the exception
RecordFailure(entry, kind) ==
    [ entry EXCEPT !.last_cmd_error_msg = kind,
                   !.reason_for_failure = ReasonForFailure(kind),
                   !.successful = "False" ]

\* an except SetupException without its return: the loop goes on with the next step
SetupExceptContinues(s) == "setup"

\* where process_pull goes after the except SetupException of setup step s: it returns
SetupExceptPc(s) == "pull_return"

\* the phases of a verification run, in the order of the code
Phases ==
    << "setup", "detect", "check_for_tests", "compile", "test", "generate_coverage",
       "check_coverage" >>

Started(r, phase) ==
    IF \E i \in 1..Len(r.started) : r.started[i] = phase THEN r
    ELSE [r EXCEPT !.started = Append(@, phase)]

Returned(r, phase) == [r EXCEPT !.returned = @ \cup {phase}]

Raised(r, phase) == [r EXCEPT !.raised_in = phase]

\* one more action() of the setup loop
StepRun(r) == [r EXCEPT !.n_setup = @ + 1]

\* exec_run sends a command to the container; the command is over when exec_run
\* returns its exit code, and only then
Sent(r, cmd) == [r EXCEPT !.executing = @ \cup {cmd}]

Exited(r, cmd, o) ==
    IF o \in {"exit0", "exitN"} THEN [r EXCEPT !.executing = @ \ {cmd}] ELSE r

\* process_pull up to the placeholder entry: the cache, is_pull_good, the new entry
ProcessPullStart ==
    /\ pc = "process_pull"
    /\ cache' = CacheAfterLookup(cache, df[repo_i])
    /\ IF InCache(cache, df[repo_i], pr_i)
         THEN /\ dataset' = Append(dataset, cache[df[repo_i]][pr_i])
              /\ pc' = "pull_return"
              /\ UNCHANGED << exc, budget, build_handler, container, run >>
         ELSE \E o \in {"good", "bad"} \cup OtherExceptions :
                CASE o = "good" ->
                       /\ budget > 0
                       /\ pr_i \in GoodPRsOf(pool)
                       /\ budget' = budget - 1
                       /\ dataset' = Append(dataset, NewEntry(Len(dataset) + 1, df[repo_i], pr_i))
                       /\ build_handler' = "none"
                       /\ container' = "none"
                       /\ run' = [NewRun EXCEPT !.entered = TRUE]
                       /\ pc' = "get_review_comments"
                       /\ UNCHANGED exc
                  [] o = "bad" ->
                       /\ pc' = "pull_return"
                       /\ UNCHANGED << exc, budget, dataset, build_handler, container, run >>
                  [] OTHER ->
                       /\ exc' = o
                       /\ pc' = "pull_return"
                       /\ UNCHANGED << budget, dataset, build_handler, container, run >>
    /\ UNCHANGED << parallel_vars, test_results, exec_output, test_output, checkout >>
    /\ UNCHANGED << df, pool, cache_file, already_seen_prs, output, repo_i, pr_i,
                    commented_file_path, step, alarm, updates, committed, manifest,
                    og_content, already_injected, report_i >>

\* the setup steps that are a checkout(): of the base commit, of the merge commit
CHECKOUT_STEPS == {6, 8}

\* the run after setup step s returned: git checkout -f moved HEAD in steps 6 and 8
CheckedOut(r, s) == IF s \in CHECKOUT_STEPS THEN [r EXCEPT !.checked_out = TRUE] ELSE r

\* process_pull: comment = pr.get_review_comments()[0]
GetReviewComments ==
    /\ pc = "get_review_comments"
    /\ \/ \E f \in CommentedFiles :
            /\ commented_file_path' = f
            /\ step' = 1
            /\ pc' = "setup"
            /\ UNCHANGED exc
       \/ \E o \in OtherExceptions :
            /\ exc' = o
            /\ pc' = "pull_return"
            /\ UNCHANGED << commented_file_path, step >>
    /\ UNCHANGED parallel_vars
    /\ UNCHANGED << batch_vars, budget, already_seen_prs, dataset, repo_i, pr_i,
                    build_handler, handler_vars, run >>

\* process_pull: one step of setup_steps, and the except SetupException around it
SetupStep ==
    /\ pc = "setup"
    /\ \E o \in {"ok"} \cup SetupErrors(step) \cup OtherExceptions :
         CASE o = "ok" ->
                /\ dataset' =
                     IF step = 5
                       THEN [dataset EXCEPT ![cur].comments = Append(@, commented_file_path)]
                       ELSE dataset
                /\ IF step = 8
                     THEN \E m \in ManifestsOf(pool) : committed' = m /\ manifest' = m
                     ELSE UNCHANGED << committed, manifest >>
                /\ IF step = N_SETUP_STEPS
                     THEN /\ pc' = "get_build_handler"
                          /\ run' = Returned(Started(CheckedOut(StepRun(run), step), "setup"),
                                             "setup")
                          /\ UNCHANGED step
                     ELSE /\ step' = step + 1
                          /\ run' = Started(CheckedOut(StepRun(run), step), "setup")
                          /\ UNCHANGED pc
                /\ UNCHANGED exc
           [] o \in SetupExceptions ->
                /\ dataset' = [dataset EXCEPT ![cur] = RecordFailure(@, o)]
                /\ run' = Raised(Started(StepRun(run), "setup"), "setup")
                /\ pc' = SetupExceptPc(step)
                /\ step' = IF pc' = "setup" THEN step + 1 ELSE step
                /\ UNCHANGED << exc, committed, manifest >>
           [] OTHER ->
                /\ exc' = o
                /\ run' = Raised(Started(StepRun(run), "setup"), "setup")
                /\ pc' = "pull_return"
                /\ UNCHANGED << dataset, step, committed, manifest >>
    /\ UNCHANGED << parallel_vars, test_results, exec_output, test_output, checkout >>
    /\ UNCHANGED << batch_vars, budget, already_seen_prs, repo_i, pr_i,
                    commented_file_path, build_handler, container, alarm, updates,
                    og_content, already_injected, report_i >>

\* a detector that takes a checkout without build file for a Maven project
MavenByDefault(isdir, listing) ==
    IF ~isdir THEN {"NotValidDirectory"}
    ELSE IF listing \cap {"pom.xml", "build.gradle"} = {} THEN {"maven"}
    ELSE { IF f = "build.gradle" THEN "gradle" ELSE "maven" :
             f \in listing \cap {"pom.xml", "build.gradle"} }

\* get_build_handler: the first root-level pom.xml or build.gradle that scandir lists
GetBuildHandlerResults(isdir, listing) ==
    IF ~isdir THEN {"NotValidDirectory"}
    ELSE IF listing \cap {"pom.xml", "build.gradle"} = {} THEN {"CantFindBuildFile"}
    ELSE { IF f = "build.gradle" THEN "gradle" ELSE "maven" :
             f \in listing \cap {"pom.xml", "build.gradle"} }

\* process_pull: the build handler of the checkout, and the except SetupException
GetBuildHandler ==
    /\ pc = "get_build_handler"
    /\ \E isdir \in BOOLEAN, listing \in ListingsOf(pool) :
         \E o \in GetBuildHandlerResults(isdir, listing) :
           IF o \in SetupExceptions
             THEN /\ dataset' = [dataset EXCEPT ![cur] = RecordFailure(@, o)]
                  /\ run' = Raised(Started(run, "detect"), "detect")
                  /\ pc' = "pull_return"
                  /\ UNCHANGED build_handler
             ELSE /\ build_handler' = o
                  /\ dataset' = [dataset EXCEPT ![cur].build_system = o]
                  /\ run' = Returned(Started(run, "detect"), "detect")
                  /\ pc' = "non_code_check"
    /\ UNCHANGED parallel_vars
    /\ UNCHANGED << exc, batch_vars, budget, already_seen_prs, repo_i, pr_i,
                    commented_file_path, step, handler_vars >>

\* process_pull: a pull request whose comments are on no .java file ends here
NonCodeCheck ==
    /\ pc = "non_code_check"
    /\ IF \A i \in 1..Len(dataset[cur].comments) : ~EndsWithJava(dataset[cur].comments[i])
         THEN /\ dataset' = [dataset EXCEPT ![cur] =
                               [@ EXCEPT !.is_code_related = "False",
                                         !.successful = "True",
                                         !.reason_for_failure = VALID_NOT_CODE]]
              /\ run' = [run EXCEPT !.non_code = TRUE]
              /\ pc' = "pull_return"
         ELSE /\ dataset' = [dataset EXCEPT ![cur].is_code_related = "True"]
              /\ pc' = "enter"
              /\ UNCHANGED run
    /\ UNCHANGED parallel_vars
    /\ UNCHANGED << exc, batch_vars, budget, already_seen_prs, repo_i, pr_i, pull_vars,
                    handler_vars >>

\* ------------------------------------------------------------------ handlers
LIBRARIES == <<"junit", "testng", "mockito">>
KEYWORDS == <<"testImplementation", "functionalTests", "bwc_tests_enabled">>
TEST_DIRS == <<"src/test/java", "src/test/kotlin", "src/test/groovy", "test">>

\* the test directories a checkout may hold
TestDirChoices == { {}, {"src/test/java"}, {"src/test/java", "test"} }

\* an updates dict with no key set
NoUpdates ==
    [ detected_source_of_tests |-> <<>>, compiled_successfully |-> "unset",
      tested_successfully |-> "unset", error_msg |-> "unset", tests |-> <<>> ]

COMPILE_TIMEOUT_MSG == "Compile process killed due to exceeding the 1-hour time limit"
TEST_TIMEOUT_MSG == "Test process killed due to exceeding the 1-hour time limit"

FirstIn(names, content) ==
    LET hits == { i \in 1..Len(names) : Contains(content, names[i]) }
    IN IF hits = {} THEN 0 ELSE CHOOSE i \in hits : \A j \in hits : i <= j

LastDir(dirs) ==
    LET hits == { i \in 1..Len(TEST_DIRS) : TEST_DIRS[i] \in dirs }
    IN IF hits = {} THEN 0 ELSE CHOOSE i \in hits : \A j \in hits : i >= j

\* the run with the test directories check_for_tests sees: it looks for them when the
\* build file has no library and no keyword
Listed(r, content, dirs) ==
    IF FirstIn(LIBRARIES, content) = 0 /\ FirstIn(KEYWORDS, content) = 0
      THEN [r EXCEPT !.test_dirs = dirs]
      ELSE r

\* a check that scans the keywords before the libraries and fails on a keyword
KeywordsFirst(content, dirs) ==
    IF FirstIn(KEYWORDS, content) # 0
      THEN [ raises |-> TRUE,
             source |-> <<KEYWORDS[FirstIn(KEYWORDS, content)], " keyword in build file">> ]
    ELSE IF FirstIn(LIBRARIES, content) # 0
      THEN [ raises |-> FALSE,
             source |-> <<LIBRARIES[FirstIn(LIBRARIES, content)], " library in build file">> ]
    ELSE [ raises |-> LastDir(dirs) = 0, source |-> <<>> ]

\* check_for_tests: whether it raises NoTestsFoundError, and the source it records
CheckForTestsResult(content, dirs) ==
    IF FirstIn(LIBRARIES, content) # 0
      THEN [ raises |-> FALSE,
             source |-> <<LIBRARIES[FirstIn(LIBRARIES, content)], " library in build file">> ]
    ELSE IF FirstIn(KEYWORDS, content) # 0
      THEN [ raises |-> FALSE,
             source |-> <<KEYWORDS[FirstIn(KEYWORDS, content)], " keyword in build file">> ]
    ELSE [ raises |-> TRUE,
           source |-> IF LastDir(dirs) # 0
                        THEN <<TEST_DIRS[LastDir(dirs)], " dir exists in repo">>
                        ELSE <<>> ]

\* a handler without the except TimeoutError: the exception leaves the call
TimeoutPropagates(phase) == "Crash"

\* what the handler does with the TimeoutError of the alarm: "none" when it swallows it
OnTimeout(phase) == "none"

\* the alarm after the finally of compile_repo and test_repo: signal.alarm(0)
AlarmAfterCall == 0

\* the summary blocks the pattern finds in the output of mvn test
MavenOutputs == { <<>>, << <<10, 1, 0, 2>> >> }

\* the counters of build/reports/tests/test/index.html: none (no such file, or no
\* tests counter), the tests counter alone, or tests and failures
GradleReports == { <<>>, <<10>>, <<10, 1>> }

RECURSIVE SumMatches(_, _)
\* MavenHandler.extract_test_numbers: the loop over the matches;
\* acc is (n_tests, n_tests_passed, n_tests_failed, n_tests_errors, n_tests_skipped)
SumMatches(matches, acc) ==
    IF matches = <<>> THEN acc
    ELSE LET m == matches[1]
         IN SumMatches(Tail(matches),
                       << acc[1] + m[1], acc[2] + (m[1] - (m[2] + m[3])), acc[3] + m[2],
                          acc[4] + m[3], acc[5] + m[4] >>)

\* an extraction that adds to the counts the updates already hold
MavenAccumulates(previous, found) ==
    [ raises |-> found = <<>>,
      tests |-> SumMatches(found, IF previous = <<>> THEN <<0, 0, 0, 0, 0>> ELSE previous) ]

\* MavenHandler.extract_test_numbers: the five counts are set to 0 whatever the updates
\* held, no match raises, the matches are summed
MavenTestNumbers(previous, found) ==
    [ raises |-> found = <<>>, tests |-> SumMatches(found, <<0, 0, 0, 0, 0>>) ]

\* an extraction that starts from 0 and leaves the counts it cannot read at 0
GradleCoerced(found) ==
    CASE Len(found) = 0 -> [ raises |-> TRUE, tests |-> <<0, 0, 0, 0, 0>> ]
      [] Len(found) = 1 -> [ raises |-> TRUE, tests |-> <<found[1], 0, 0, 0, 0>> ]
      [] OTHER -> [ raises |-> FALSE,
                    tests |-> <<found[1], found[1] - found[2], found[2], 0, 0>> ]

\* GradleHandler.extract_test_numbers: the five counts are set to -1, then n_tests,
\* n_tests_failed and n_tests_passed as far as the report has the counters
GradleTestNumbers(found) ==
    CASE Len(found) = 0 -> [ raises |-> TRUE, tests |-> <<-1, -1, -1, -1, -1>> ]
      [] Len(found) = 1 -> [ raises |-> TRUE, tests |-> <<found[1], -1, -1, -1, -1>> ]
      [] OTHER -> [ raises |-> FALSE,
                    tests |-> <<found[1], found[1] - found[2], found[2], -1, -1>> ]

\* an extraction that never raises
Unchecked(system, previous, found) ==
    [ (IF system = "maven" THEN MavenTestNumbers(previous, found)
                           ELSE GradleTestNumbers(found)) EXCEPT !.raises = FALSE ]

\* extract_test_numbers: whether it raises NoTestResultsToExtractError, and the counts;
\* previous is what the updates held
ExtractTestNumbers(system, previous, found) ==
    IF system = "maven" THEN MavenTestNumbers(previous, found) ELSE GradleTestNumbers(found)

TestOutputs(system) == IF system = "maven" THEN MavenOutputs ELSE GradleReports

RECURSIVE ReplaceAll(_, _, _)
\* str.replace: every occurrence of the token becomes the tokens of by
ReplaceAll(content, token, by) ==
    IF content = <<>> THEN <<>>
    ELSE (IF content[1] = token THEN by ELSE <<content[1]>>)
           \o ReplaceAll(Tail(content), token, by)

\* _try_to_inject_jacoco: whether it raises CantInjectJacoco, and the content it leaves
TryToInjectJacoco(system, content) ==
    IF system = "maven"
      THEN IF Contains(content, "<artifactId>jacoco-maven-plugin</artifactId>")
             THEN [raises |-> FALSE, content |-> content]
           ELSE IF Contains(content, "<plugins>")
             THEN [ raises |-> FALSE,
                    content |-> ReplaceAll(content, "<plugins>", <<"<plugins>", JACOCO_PLUGIN>>) ]
           ELSE IF Contains(content, "</project>")
             THEN [ raises |-> FALSE,
                    content |-> ReplaceAll(content, "</project>",
                                   << "<build>", "<plugins>", JACOCO_PLUGIN, "</plugins>",
                                      "</build>", "</project>" >>) ]
           ELSE [raises |-> TRUE, content |-> content]
    ELSE IF Contains(content, "id 'jacoco'") \/ Contains(content, "apply plugin: 'jacoco'")
      THEN [raises |-> FALSE, content |-> content]
    ELSE [raises |-> FALSE, content |-> <<JACOCO_SNIPPET>> \o content]

\* whether the manifest holds the coverage plugin signature of its family
HasSignature(system, content) ==
    IF system = "maven"
      THEN Contains(content, "<artifactId>jacoco-maven-plugin</artifactId>")
      ELSE Contains(content, "id 'jacoco'") \/ Contains(content, "apply plugin: 'jacoco'")

\* a retry that is called like the first attempt
RetryNotInjected == FALSE

\* the already_injected_manually the retry of generate_coverage_report is called with
RetryAlreadyInjected == TRUE

\* an except clause that leaves the build file as the injector wrote it
InjectedContent(og, current) == current

\* the content the except clause of generate_coverage_report writes to the build file
RestoredContent(og, current) == og

\* the LINE counters (missed, covered) a report may hold for the file
LineCounters == { <<0, 0>>, <<1, 0>>, <<0, 1>>, <<1, 1>> }

\* a coverage-only lookup: a file none of whose lines was covered counts as absent
CoveredOnly(mentioned, missed, covered) ==
    IF ~mentioned \/ covered = 0 THEN -1
    ELSE (covered * 100) \div (missed + covered)

\* get_coverage_for_file: -1 when the report has no class of the file with a LINE
\* counter (mentioned says whether it has one)
GetCoverageForFile(mentioned, missed, covered) ==
    IF ~mentioned THEN -1
    ELSE IF missed + covered > 0 THEN (covered * 100) \div (missed + covered) ELSE 0

\* the run after one more report was looked up: the reports that hold the file's lines
Covering(r, mentioned) == IF mentioned THEN [r EXCEPT !.n_covering = @ + 1] ELSE r

\* the run after the loop of check_coverage went through every report path
ReadAll(r) == [r EXCEPT !.reports_read = TRUE]

\* the exceptions of _extract_fully_qualified_class
FqcErrors == {"NotJavaFileError", "FileNotFoundInRepoError", "NoPackageFoundError"}

\* ------------------------------------------------------------------ the with block
\* BuildHandler.__enter__: the container is started
Enter ==
    /\ pc = "enter"
    /\ \E o \in {"ok"} \cup OtherExceptions :
         IF o = "ok"
           THEN /\ container' = "running"
                /\ pc' = "check_for_tests"
                /\ UNCHANGED exc
           ELSE /\ exc' = o
                /\ pc' = "pull_return"
                /\ UNCHANGED container
    /\ UNCHANGED << parallel_vars, test_results, exec_output, test_output, checkout >>
    /\ UNCHANGED << batch_vars, budget, already_seen_prs, dataset, repo_i, pr_i, pull_vars,
                    alarm, updates, committed, manifest, og_content, already_injected,
                    report_i, run >>

\* BuildHandler.check_for_tests
CheckForTests ==
    /\ pc = "check_for_tests"
    /\ \E dirs \in TestDirChoices :
         LET r == CheckForTestsResult(manifest, dirs)
         IN /\ updates' = [updates EXCEPT ![build_handler].detected_source_of_tests =
                                            IF r.source # <<>> THEN r.source ELSE @]
            /\ IF r.raises
                 THEN /\ exc' = "NoTestsFoundError"
                      /\ run' = Raised(Started(Listed(run, manifest, dirs), "check_for_tests"),
                                       "check_for_tests")
                      /\ pc' = "try_end"
                 ELSE /\ run' = Returned(Started(Listed(run, manifest, dirs), "check_for_tests"),
                                         "check_for_tests")
                      /\ pc' = "compile"
                      /\ UNCHANGED exc
    /\ UNCHANGED << parallel_vars, test_results, exec_output, test_output, checkout >>
    /\ UNCHANGED << batch_vars, budget, already_seen_prs, dataset, repo_i, pr_i, pull_vars,
                    container, alarm, committed, manifest, og_content, already_injected,
                    report_i >>

\* BuildHandler.compile_repo up to the exec_run: the alarm is armed
CompileRepo ==
    /\ pc = "compile"
    /\ alarm' = ALARM_SECONDS
    /\ run' = Sent(Started(run, "compile"), "compile")
    /\ pc' = "compile_exec"
    /\ UNCHANGED << parallel_vars, test_results, exec_output, test_output, checkout >>
    /\ UNCHANGED << exc, batch_vars, budget, already_seen_prs, dataset, repo_i, pr_i,
                    pull_vars, container, updates, committed, manifest, og_content,
                    already_injected, report_i >>

\* BuildHandler.compile_repo: the compile command, its except and its finally
CompileExec ==
    /\ pc = "compile_exec"
    /\ \E o \in {"exit0", "exitN", "timeout"} \cup OtherExceptions :
         LET raised == CASE o = "exit0" -> "none"
                         [] o = "exitN" -> "FailedToCompileError"
                         [] o = "timeout" -> OnTimeout("compile")
                         [] OTHER -> o
             r1 == [Exited(run, "compile", o) EXCEPT
                      !.n_compile = @ + 1,
                      !.timeouts = IF o = "timeout" THEN @ \cup {"compile"} ELSE @]
         IN /\ updates' =
                 IF o = "timeout" /\ raised = "none"
                   THEN [updates EXCEPT ![build_handler].compiled_successfully = "False",
                                        ![build_handler].error_msg = COMPILE_TIMEOUT_MSG]
                   ELSE updates
            /\ alarm' = AlarmAfterCall
            /\ IF raised = "none"
                 THEN /\ run' = Returned(r1, "compile")
                      /\ pc' = "test"
                      /\ UNCHANGED exc
                 ELSE /\ exc' = raised
                      /\ run' = Raised(r1, "compile")
                      /\ pc' = "try_end"
    /\ UNCHANGED << parallel_vars, test_results, exec_output, test_output, checkout >>
    /\ UNCHANGED << batch_vars, budget, already_seen_prs, dataset, repo_i, pr_i, pull_vars,
                    container, committed, manifest, og_content, already_injected, report_i >>

\* BuildHandler.test_repo up to the exec_run: the alarm is armed
TestRepo ==
    /\ pc = "test"
    /\ alarm' = ALARM_SECONDS
    /\ run' = Sent(Started(run, "test"), "test")
    /\ pc' = "test_exec"
    /\ UNCHANGED << parallel_vars, test_results, exec_output, test_output, checkout >>
    /\ UNCHANGED << exc, batch_vars, budget, already_seen_prs, dataset, repo_i, pr_i,
                    pull_vars, container, updates, committed, manifest, og_content,
                    already_injected, report_i >>

\* BuildHandler.test_repo: the test command, extract_test_numbers, except and finally
TestExec ==
    /\ pc = "test_exec"
    /\ \E o \in {"exit0", "exitN", "timeout"} \cup OtherExceptions :
       \E found \in IF o = "exit0" THEN TestOutputs(build_handler) ELSE {<<>>} :
         LET x == ExtractTestNumbers(build_handler, updates[build_handler].tests, found)
             raised == CASE o = "exit0" ->
                              IF x.raises THEN "NoTestResultsToExtractError" ELSE "none"
                         [] o = "exitN" -> "FailedToTestError"
                         [] o = "timeout" -> OnTimeout("test")
                         [] OTHER -> o
             r1 == [Exited(run, "test", o) EXCEPT
                      !.n_test = @ + 1,
                      !.test_exit = o,
                      !.timeouts = IF o = "timeout" THEN @ \cup {"test"} ELSE @]
         IN /\ updates' =
                 IF o = "exit0"
                   THEN [updates EXCEPT ![build_handler].tests = x.tests]
                 ELSE IF o = "timeout" /\ raised = "none"
                   THEN [updates EXCEPT ![build_handler].tested_successfully = "False",
                                        ![build_handler].error_msg = TEST_TIMEOUT_MSG]
                 ELSE updates
            /\ test_results' = found
            /\ alarm' = AlarmAfterCall
            /\ IF raised = "none"
                 THEN /\ run' = Returned(r1, "test")
                      /\ pc' = "generate_coverage"
                      /\ already_injected' = FALSE
                      /\ UNCHANGED exc
                 ELSE /\ exc' = raised
                      /\ run' = Raised(r1, "test")
                      /\ pc' = "try_end"
                      /\ UNCHANGED already_injected
    /\ UNCHANGED << parallel_vars, exec_output, test_output, checkout >>
    /\ UNCHANGED << batch_vars, budget, already_seen_prs, dataset, repo_i, pr_i, pull_vars,
                    container, committed, manifest, og_content, report_i >>

\* BuildHandler.generate_coverage_report: the coverage command, and what follows its
\* exit code.  The build file is there: check_for_tests has read it.
GenerateCoverageReport ==
    /\ pc = "generate_coverage"
    /\ \E o \in {"exit0", "exitN"} \cup OtherExceptions :
         LET r0 == Exited(Sent(Started(run, "generate_coverage"), "coverage"), "coverage", o)
             r1 == [r0 EXCEPT
                      !.n_cov = @ + 1,
                      !.cov_exits = Append(@, o),
                      !.cov_before = IF run.n_cov = 0 THEN manifest ELSE @]
         IN CASE o = "exit0" ->
                   /\ run' = [Returned(r1, "generate_coverage") EXCEPT !.cov_result = "ok"]
                   /\ report_i' = 0
                   /\ pc' = "check_coverage"
                   /\ UNCHANGED << exc, og_content >>
              [] o = "exitN" /\ already_injected ->
                   /\ exc' = "CantExecJacoco"
                   /\ run' = r1
                   /\ pc' = "restore"
                   /\ UNCHANGED << og_content, report_i >>
              [] o = "exitN" /\ ~already_injected ->
                   /\ og_content' = manifest
                   /\ run' = r1
                   /\ pc' = "inject"
                   /\ UNCHANGED << exc, report_i >>
              [] OTHER ->
                   /\ exc' = o
                   /\ run' = [Raised(r1, "generate_coverage") EXCEPT !.cov_result = o]
                   /\ pc' = "try_end"
                   /\ UNCHANGED << og_content, report_i >>
    /\ UNCHANGED << parallel_vars, test_results, exec_output, test_output, checkout >>
    /\ UNCHANGED << batch_vars, budget, already_seen_prs, dataset, repo_i, pr_i, pull_vars,
                    container, alarm, updates, committed, manifest, already_injected >>

\* generate_coverage_report: _try_to_inject_jacoco, then the retry
InjectJacoco ==
    /\ pc = "inject"
    /\ LET r == TryToInjectJacoco(build_handler, manifest)
       IN /\ run' = [run EXCEPT !.n_inject = @ + 1]
          /\ IF r.raises
               THEN /\ exc' = "CantInjectJacoco"
                    /\ pc' = "restore"
                    /\ UNCHANGED << manifest, already_injected >>
               ELSE /\ manifest' = r.content
                    /\ already_injected' = RetryAlreadyInjected
                    /\ pc' = "generate_coverage"
                    /\ UNCHANGED exc
    /\ UNCHANGED << parallel_vars, test_results, exec_output, test_output, checkout >>
    /\ UNCHANGED << batch_vars, budget, already_seen_prs, dataset, repo_i, pr_i, pull_vars,
                    container, alarm, updates, committed, og_content, report_i >>

\* generate_coverage_report: except (CantInjectJacoco, CantExecJacoco): write og_content
\* back, raise again
RestoreBuildFile ==
    /\ pc = "restore"
    /\ manifest' = RestoredContent(og_content, manifest)
    /\ run' = [Raised(run, "generate_coverage") EXCEPT !.cov_result = exc]
    /\ pc' = "try_end"
    /\ UNCHANGED << parallel_vars, test_results, exec_output, test_output, checkout >>
    /\ UNCHANGED << exc, batch_vars, budget, already_seen_prs, dataset, repo_i, pr_i,
                    pull_vars, container, alarm, updates, committed, og_content,
                    already_injected, report_i >>

\* _check_coverages: one round of the loop over BuildHandler.check_coverage
CheckCoverage ==
    /\ pc = "check_coverage"
    /\ \/ \* no further report
          /\ IF report_i = 0
               THEN exc' = "NoCoverageReportFound"
               ELSE IF dataset[cur].coverage = {}
                      THEN exc' = "FileNotCovered"
                      ELSE UNCHANGED exc
          /\ run' = IF exc' = "none"
                      THEN Returned(Started(ReadAll(run), "check_coverage"), "check_coverage")
                      ELSE Raised(Started(ReadAll(run), "check_coverage"), "check_coverage")
          /\ pc' = "try_end"
          /\ UNCHANGED << dataset, report_i >>
       \/ \* the next report: the class of the file cannot be told, or the parse fails
          /\ report_i < ReportsOf(pool)
          /\ \E o \in (IF report_i = 0 THEN FqcErrors ELSE {}) \cup {"Crash"} :
               /\ exc' = o
               /\ run' = Raised(Started(run, "check_coverage"), "check_coverage")
               /\ pc' = "try_end"
               /\ UNCHANGED << dataset, report_i >>
       \/ \* the next report: the coverage of the file in it
          /\ report_i < ReportsOf(pool)
          /\ \E mentioned \in BOOLEAN, c \in LineCounters :
               LET coverage == GetCoverageForFile(mentioned, c[1], c[2])
               IN /\ dataset' =
                       IF coverage # -1
                         THEN [dataset EXCEPT ![cur].coverage = @ \cup {<<report_i + 1, coverage>>}]
                         ELSE dataset
                  /\ report_i' = report_i + 1
                  /\ run' = Started(Covering(run, mentioned), "check_coverage")
                  /\ UNCHANGED << exc, pc >>
    /\ UNCHANGED << parallel_vars, test_results, exec_output, test_output, checkout >>
    /\ UNCHANGED << batch_vars, budget, already_seen_prs, repo_i, pr_i, pull_vars,
                    container, alarm, updates, committed, manifest, og_content,
                    already_injected >>

\* process_pull: except HandlerException, else
TryEnd ==
    /\ pc = "try_end"
    /\ IF exc = "none"
         THEN /\ dataset' = [dataset EXCEPT ![cur].successful = "True"]
              /\ UNCHANGED exc
         ELSE IF exc \in HandlerExceptions
                THEN /\ dataset' = [dataset EXCEPT ![cur] = RecordFailure(@, exc)]
                     /\ exc' = "none"
                ELSE UNCHANGED << dataset, exc >>
    /\ pc' = "clean_repo"
    /\ UNCHANGED parallel_vars
    /\ UNCHANGED << batch_vars, budget, already_seen_prs, repo_i, pr_i, pull_vars,
                    handler_vars, run >>

\* process_pull: finally: build_handler.clean_repo()
CleanRepo ==
    /\ pc = "clean_repo"
    /\ \E o \in {"ok"} \cup OtherExceptions :
         IF o = "ok"
           THEN /\ pc' = "reset_repo"
                /\ UNCHANGED exc
           ELSE /\ exc' = o
                /\ pc' = "exit_kill"
    /\ UNCHANGED parallel_vars
    /\ UNCHANGED << batch_vars, budget, already_seen_prs, dataset, repo_i, pr_i, pull_vars,
                    handler_vars, run >>

\* process_pull: finally: reset_repo_to_latest_commit(repo_path)
ResetRepoToLatestCommit ==
    /\ pc = "reset_repo"
    /\ \E o \in {"ok"} \cup OtherExceptions :
         IF o = "ok"
           THEN /\ manifest' = committed
                /\ run' = [run EXCEPT !.reset = TRUE]
                /\ UNCHANGED exc
           ELSE /\ exc' = o
                /\ UNCHANGED << manifest, run >>
    /\ pc' = "exit_kill"
    /\ UNCHANGED << parallel_vars, test_results, exec_output, test_output, checkout >>
    /\ UNCHANGED << batch_vars, budget, already_seen_prs, dataset, repo_i, pr_i, pull_vars,
                    container, alarm, updates, committed, og_content, already_injected,
                    report_i >>

\* BuildHandler.__exit__: self.container.kill()
ExitKill ==
    /\ pc = "exit_kill"
    /\ \E o \in {"ok"} \cup OtherExceptions :
         IF o = "ok"
           THEN /\ container' = "killed"
                /\ run' = [run EXCEPT !.executing = {}]
                /\ pc' = "exit_remove"
                /\ UNCHANGED exc
           ELSE /\ exc' = o
                /\ pc' = "pull_return"
                /\ UNCHANGED << container, run >>
    /\ UNCHANGED << parallel_vars, test_results, exec_output, test_output, checkout >>
    /\ UNCHANGED << batch_vars, budget, already_seen_prs, dataset, repo_i, pr_i, pull_vars,
                    alarm, updates, committed, manifest, og_content, already_injected,
                    report_i >>

\* BuildHandler.__exit__: self.container.remove(); then the with block is left
ExitRemove ==
    /\ pc = "exit_remove"
    /\ \E o \in {"ok"} \cup OtherExceptions :
         IF o = "ok"
           THEN /\ container' = "removed"
                /\ pc' = IF exc = "none" THEN "after_with" ELSE "pull_return"
                /\ UNCHANGED exc
           ELSE /\ exc' = o
                /\ pc' = "pull_return"
                /\ UNCHANGED container
    /\ UNCHANGED << parallel_vars, test_results, exec_output, test_output, checkout >>
    /\ UNCHANGED << batch_vars, budget, already_seen_prs, dataset, repo_i, pr_i, pull_vars,
                    alarm, updates, committed, manifest, og_content, already_injected,
                    report_i, run >>

\* a file counts as covered as soon as one report mentions it
CoveredWhenRecorded(entry) == entry.coverage # {}

\* process_pull after the with block: is_covered over the commented files
IsCovered(entry) ==
    \A i \in 1..Len(entry.comments) :
        ~( entry.coverage = {} \/ \A p \in entry.coverage : p[2] = 0 )

\* process_pull after the with block: is_covered and the reason of a successful run
AfterWith ==
    /\ pc = "after_with"
    /\ LET e == dataset[cur]
           covered == IsCovered(e)
       IN dataset' = [dataset EXCEPT ![cur] =
              [@ EXCEPT !.is_covered = IF covered THEN "True" ELSE "False",
                        !.reason_for_failure =
                            IF e.successful = "True"
                              THEN (IF covered THEN VALID ELSE VALID_NOT_COVERED)
                              ELSE @]]
    /\ pc' = "pull_return"
    /\ UNCHANGED parallel_vars
    /\ UNCHANGED << exc, batch_vars, budget, already_seen_prs, repo_i, pr_i, pull_vars,
                    handler_vars, run >>

\* ------------------------------------------------------------------ pool mode
\* the repositories of a batch run with --max-workers
PoolRepoNames == << "octo/app", "alibaba/druid", "octo/lib", "octo/web" >>

\* how many closed pull requests repo.get_pulls yields
PullsOf(name) == IF name = PoolRepoNames[1] THEN NumPRs ELSE 1

\* a filter that lets every name through
NothingExcluded(name) == FALSE

\* repo_name in EXCLUSION_LIST
IsExcluded(name) == name \in EXCLUSION_LIST

\* repo_names: the names of df that are not excluded, in the order of df
repo_names == SelectSeq(df, LAMBDA name : ~IsExcluded(name))

\* executor.submit(process_repo_worker, name, ..., pos): the future and the worker
\* behind it, with its local_dataset.entries, the pull request it is at, the container
\* of its handler and the containers earlier runs of it left alive
NewFuture(name, pos) ==
    [ repo |-> name, pos |-> pos, state |-> "running", wpc |-> "prs_loop", pr |-> 1,
      entries |-> <<>>, container |-> "none", alive |-> 0 ]

\* an assignment in place of the extend
Overwritten(entries, more) == more

\* dataset.entries.extend(more)
Extended(entries, more) == entries \o more

\* the elements of a list
Range(seq) == { seq[i] : i \in DOMAIN seq }

\* already_seen_prs of process_repo in a worker
SeenIn(c, repo) == IF repo \in DOMAIN c THEN DOMAIN c[repo] ELSE {}

\* the containers alive that are bound to the checkout future k works on
LiveContainers(k) ==
    futures[k].alive + (IF futures[k].container = "running" THEN 1 ELSE 0)

\* process_repos_parallel: the cached entries go first into the dataset and the file
ProcessReposParallelStart ==
    /\ pc = "process_repos_parallel"
    /\ IF DOMAIN cache # {}
         THEN /\ dataset' = Extended(dataset, CacheValues(cache, SetToSeq(DOMAIN cache)))
              /\ output' = dataset'
         ELSE UNCHANGED << dataset, output >>
    /\ free_positions' = [i \in 1..max_workers |-> i]
    /\ repo_names_iter' = 1
    /\ future_to_repo' = {}
    /\ pc' = "submit"
    /\ UNCHANGED << exc, df, pool, cache_file, cache, sequential_vars, max_workers,
                    futures, done, to_drain >>

\* process_repos_parallel: for _ in range(n_workers), before the try
SubmitInitial ==
    /\ pc = "submit"
    /\ IF free_positions = <<>> \/ repo_names_iter > Len(repo_names)
         THEN /\ pc' = "wait"
              /\ UNCHANGED << exc, repo_names_iter, free_positions, futures,
                              future_to_repo >>
         ELSE \E o \in {"ok"} \cup OtherExceptions :
                IF o = "ok"
                  THEN /\ futures' = Append(futures,
                              NewFuture(repo_names[repo_names_iter], Head(free_positions)))
                       /\ future_to_repo' = future_to_repo \cup {Len(futures) + 1}
                       /\ free_positions' = Tail(free_positions)
                       /\ repo_names_iter' = repo_names_iter + 1
                       /\ UNCHANGED << pc, exc >>
                  ELSE /\ exc' = o
                       /\ pc' = "executor_exit"
                       /\ UNCHANGED << repo_names_iter, free_positions, futures,
                                       future_to_repo >>
    /\ UNCHANGED << batch_vars, dataset, sequential_vars, max_workers, done,
                    to_drain >>

\* while future_to_repo: done, _ = wait(future_to_repo, return_when=FIRST_COMPLETED)
Wait ==
    /\ pc = "wait"
    /\ IF future_to_repo = {}
         THEN /\ pc' = "executor_exit"
              /\ UNCHANGED done
         ELSE /\ done' = { k \in future_to_repo : futures[k].state = "finished" }
              /\ done' # {}
              /\ pc' = "for_done"
    /\ UNCHANGED << exc, batch_vars, dataset, sequential_vars, max_workers,
                    repo_names_iter, free_positions, futures, future_to_repo,
                    to_drain >>

\* a completion loop that never gives a position back
PositionKept(k) ==
    IF repo_names_iter > Len(repo_names)
      THEN [ free |-> free_positions, futs |-> futures,
             dict |-> future_to_repo \ {k}, iter |-> repo_names_iter ]
      ELSE [ free |-> free_positions,
             futs |-> Append(futures,
                         NewFuture(repo_names[repo_names_iter], futures[k].pos)),
             dict |-> (future_to_repo \ {k}) \cup {Len(futures) + 1},
             iter |-> repo_names_iter + 1 ]

\* the futures and the iterator after next(repo_names_iter) in the slot of future k:
\* the next repository is submitted at the position of k, or the position is freed
AfterNext(k) ==
    IF repo_names_iter > Len(repo_names)
      THEN [ free |-> Append(free_positions, futures[k].pos), futs |-> futures,
             dict |-> future_to_repo \ {k}, iter |-> repo_names_iter ]
      ELSE [ free |-> free_positions,
             futs |-> Append(futures,
                         NewFuture(repo_names[repo_names_iter], futures[k].pos)),
             dict |-> (future_to_repo \ {k}) \cup {Len(futures) + 1},
             iter |-> repo_names_iter + 1 ]

\* for fut in done: future_to_repo.pop(fut); entries = fut.result(); the entries go
\* into the dataset and the file; the next repository is submitted. An interrupt or an
\* exception that arrives after the pop lands in the except clause.
ForDone ==
    /\ pc = "for_done"
    /\ IF done = {}
         THEN /\ pc' = "wait"
              /\ UNCHANGED << exc, dataset, output, done, future_to_repo, futures,
                              free_positions, repo_names_iter, to_drain >>
         ELSE \E k \in done, o \in {"ok"} \cup OtherExceptions :
                IF o = "ok"
                  THEN /\ done' = done \ {k}
                       /\ IF Len(futures[k].entries) > 0
                            THEN /\ dataset' = Extended(dataset, futures[k].entries)
                                 /\ output' = dataset'
                            ELSE UNCHANGED << dataset, output >>
                       /\ free_positions' = AfterNext(k).free
                       /\ futures' = AfterNext(k).futs
                       /\ future_to_repo' = AfterNext(k).dict
                       /\ repo_names_iter' = AfterNext(k).iter
                       /\ UNCHANGED << pc, exc, to_drain >>
                  ELSE /\ exc' = o
                       /\ future_to_repo' = future_to_repo \ {k}
                       /\ to_drain' = future_to_repo'
                       /\ done' = {}
                       /\ pc' = "drain"
                       /\ UNCHANGED << dataset, output, futures, free_positions,
                                       repo_names_iter >>
    /\ UNCHANGED << df, pool, cache_file, cache, sequential_vars, max_workers >>

\* except BaseException as top_e: an interrupt that arrives while wait() blocks
ExceptBaseException ==
    /\ pc = "wait"
    /\ future_to_repo # {}
    /\ exc = "none"
    /\ exc' = "Interrupt"
    /\ to_drain' = future_to_repo
    /\ pc' = "drain"
    /\ UNCHANGED << batch_vars, dataset, sequential_vars, max_workers, repo_names_iter,
                    free_positions, futures, future_to_repo, done >>

\* for fut in list(future_to_repo): dataset.entries.extend(fut.result()); then raise
Drain ==
    /\ pc = "drain"
    /\ IF to_drain = {}
         THEN /\ pc' = "executor_exit"
              /\ UNCHANGED << dataset, to_drain >>
         ELSE LET k == CHOOSE i \in to_drain : \A j \in to_drain : i <= j
              IN /\ futures[k].state = "finished"
                 /\ dataset' = Extended(dataset, futures[k].entries)
                 /\ to_drain' = to_drain \ {k}
                 /\ UNCHANGED pc
    /\ UNCHANGED << exc, batch_vars, sequential_vars, max_workers, repo_names_iter,
                    free_positions, futures, future_to_repo, done >>

\* ProcessPoolExecutor.__exit__: shutdown(wait=True), then back in __main__
ExecutorExit ==
    /\ pc = "executor_exit"
    /\ \A k \in DOMAIN futures : futures[k].state = "finished"
    /\ pc' = "flush"
    /\ UNCHANGED << exc, batch_vars, dataset, sequential_vars, parallel_vars >>

\* what a worker step leaves as it is
worker_unchanged ==
    << pc, exc, batch_vars, dataset, already_seen_prs, repo_i, pr_i, pull_vars,
       handler_vars, run, max_workers, repo_names_iter, free_positions, future_to_repo,
       done, to_drain >>

\* return local_dataset.entries: the future is finished, the locals are gone
WorkerReturned(w) == [w EXCEPT !.state = "finished", !.wpc = "returned", !.pr = 0]

\* the last entry of a worker's local dataset
LastEntry(w) == w.entries[Len(w.entries)]

\* the local entries with the last one replaced by e
WithLastEntry(w, e) == [w.entries EXCEPT ![Len(w.entries)] = e]

\* process_repo in worker k: for pr in prs, up to the append of the entry in
\* process_pull; after the last pull request process_repo_worker returns
WorkerPrsLoop(k) ==
    /\ futures[k].state = "running"
    /\ futures[k].wpc = "prs_loop"
    /\ LET w == futures[k]
       IN IF w.pr > PullsOf(w.repo)
            THEN /\ futures' = [futures EXCEPT ![k] = WorkerReturned(w)]
                 /\ UNCHANGED budget
            ELSE IF IsAlreadySeen(w.pr, SeenIn(cache, w.repo))
                   THEN /\ futures' = [futures EXCEPT ![k].pr = @ + 1]
                        /\ UNCHANGED budget
                   ELSE \E o \in {"good", "bad"} :
                          IF o = "good"
                            THEN /\ budget > 0
                                 /\ budget' = budget - 1
                                 /\ futures' = [futures EXCEPT
                                      ![k].entries =
                                          Append(@, NewEntry(10 * k + w.pr, w.repo, w.pr)),
                                      ![k].wpc = "process_pull"]
                            ELSE /\ futures' = [futures EXCEPT ![k].pr = @ + 1]
                                 /\ UNCHANGED budget
    /\ UNCHANGED worker_unchanged

\* process_pull in worker k, from the first setup step to the with statement
WorkerProcessPull(k) ==
    /\ futures[k].state = "running"
    /\ futures[k].wpc = "process_pull"
    /\ LET w == futures[k]
       IN \E o \in {"enter", "CantCloneRepoError"} :
            IF o = "enter"
              THEN futures' = [futures EXCEPT ![k].container = "running",
                                              ![k].wpc = "with"]
              ELSE futures' = [futures EXCEPT
                      ![k].entries = WithLastEntry(w, RecordFailure(LastEntry(w), o)),
                      ![k].pr = @ + 1,
                      ![k].wpc = "prs_loop"]
    /\ UNCHANGED << budget, worker_unchanged >>

\* the entry after the build steps ended with b and __exit__ with x
EntryAfterWith(e, b, x) ==
    IF b # "valid" THEN RecordFailure(e, b)
    ELSE IF x = "ok"
           THEN [e EXCEPT !.successful = "True", !.is_covered = "True",
                          !.reason_for_failure = VALID]
           ELSE [e EXCEPT !.successful = "True"]

\* process_pull in worker k: the with block and BuildHandler.__exit__; a kill() that
\* raises leaves the container alive, and process_repo logs the exception
WorkerWith(k) ==
    /\ futures[k].state = "running"
    /\ futures[k].wpc = "with"
    /\ LET w == futures[k]
       IN \E b \in {"valid", "FailedToCompileError"}, x \in {"ok", "Crash"} :
            futures' = [futures EXCEPT
               ![k].entries = WithLastEntry(w, EntryAfterWith(LastEntry(w), b, x)),
               ![k].container = "none",
               ![k].alive = IF x = "ok" THEN @ ELSE @ + 1,
               ![k].pr = @ + 1,
               ![k].wpc = "prs_loop"]
    /\ UNCHANGED << budget, worker_unchanged >>

\* process_repo_worker: finally: return local_dataset.entries, when an interrupt or an
\* exception leaves process_repo; inside the with block __exit__ runs first
WorkerCutShort(k) ==
    /\ futures[k].state = "running"
    /\ \E x \in {"ok", "Crash"} :
         /\ futures[k].wpc # "with" => x = "ok"
         /\ futures' = [futures EXCEPT
               ![k] = [WorkerReturned(@) EXCEPT
                         !.container = "none",
                         !.alive = IF x = "ok" THEN @ ELSE @ + 1]]
    /\ UNCHANGED << budget, worker_unchanged >>

\* ------------------------------------------------------------------ specifications
\* no directory given to get_build_handler alone
NoCheckout == [ isdir |-> FALSE, root |-> {}, nested |-> {} ]

\* the state before the program has done anything, but for where it starts
InitIdle ==
    /\ exc = "none"
    /\ cache = <<>>
    /\ already_seen_prs = {}
    /\ dataset = <<>>
    /\ output = <<>>
    /\ repo_i = 1
    /\ pr_i = 1
    /\ commented_file_path = JavaFile
    /\ step = 1
    /\ container = "none"
    /\ alarm = 0
    /\ updates = [s \in {"maven", "gradle"} |-> NoUpdates]
    /\ committed = <<>>
    /\ manifest = <<>>
    /\ og_content = <<>>
    /\ already_injected = FALSE
    /\ report_i = 0
    /\ run = NewRun
    /\ repo_names_iter = 1
    /\ free_positions = <<>>
    /\ futures = <<>>
    /\ future_to_repo = {}
    /\ done = {}
    /\ to_drain = {}

InitCommon ==
    /\ pc = "main"
    /\ build_handler = "none"
    /\ test_results = <<>>
    /\ exec_output = <<>>
    /\ test_output = <<>>
    /\ checkout = NoCheckout
    /\ InitIdle

\* one batch without a cache: every manifest, one accepted pull request
Init ==
    /\ InitCommon
    /\ df = RepoNames
    /\ pool = "any"
    /\ budget = 1
    /\ cache_file = <<>>
    /\ max_workers = 0

\* a resumed batch: every cache file, Maven checkouts of one manifest and one
\* coverage report, MaxGood accepted pull requests
InitBatch ==
    /\ InitCommon
    /\ df = RepoNames
    /\ pool = "batch"
    /\ budget = MaxGood
    /\ cache_file \in CacheFiles
    /\ max_workers = 0

\* a batch without a cache in which is_pull_good accepts one pull request more, so that
\* a second handler is made after the first is done
InitPulls ==
    /\ InitCommon
    /\ df = RepoNames
    /\ pool = "batch"
    /\ budget = MaxGood + 1
    /\ cache_file = <<>>
    /\ max_workers = 0

Next ==
    \/ LoadCache
    \/ ProcessReposStart
    \/ ReposLoop
    \/ ProcessRepoStart
    \/ PrsLoop
    \/ ProcessPullStart
    \/ GetReviewComments
    \/ SetupStep
    \/ GetBuildHandler
    \/ NonCodeCheck
    \/ Enter
    \/ CheckForTests
    \/ CompileRepo
    \/ CompileExec
    \/ TestRepo
    \/ TestExec
    \/ GenerateCoverageReport
    \/ InjectJacoco
    \/ RestoreBuildFile
    \/ CheckCoverage
    \/ TryEnd
    \/ CleanRepo
    \/ ResetRepoToLatestCommit
    \/ ExitKill
    \/ ExitRemove
    \/ AfterWith
    \/ PullReturn
    \/ Flush

Spec == Init /\ [][Next]_vars

SpecBatch == InitBatch /\ [][Next]_vars

SpecPulls == InitPulls /\ [][Next]_vars

\* a batch with --max-workers: every cache file
InitPool ==
    /\ InitCommon
    /\ df = PoolRepoNames
    /\ pool = "batch"
    /\ budget = MaxGood + 1
    /\ cache_file \in { CacheFileOf(k, VALID_NOT_CODE) : k \in 0..MaxCacheLen }
    /\ max_workers = NWorkers

NextPool ==
    \/ LoadCache
    \/ ProcessReposParallelStart
    \/ SubmitInitial
    \/ Wait
    \/ ForDone
    \/ ExceptBaseException
    \/ Drain
    \/ ExecutorExit
    \/ \E k \in DOMAIN futures : WorkerPrsLoop(k)
    \/ \E k \in DOMAIN futures : WorkerProcessPull(k)
    \/ \E k \in DOMAIN futures : WorkerWith(k)
    \/ \E k \in DOMAIN futures : WorkerCutShort(k)
    \/ Flush

SpecPool == InitPool /\ [][NextPool]_vars

\* the steps of the main process in pool mode, the arrival of an interrupt left out
MainPoolStep ==
    \/ LoadCache
    \/ ProcessReposParallelStart
    \/ SubmitInitial
    \/ Wait
    \/ ForDone
    \/ Drain
    \/ ExecutorExit
    \/ Flush

\* a step of process_repo_worker in the process behind future k
WorkerStep(k) ==
    /\ k \in DOMAIN futures
    /\ (WorkerPrsLoop(k) \/ WorkerProcessPull(k) \/ WorkerWith(k))

\* a resumed batch with --max-workers: the cache file of a batch that stopped after
\* MaxCacheLen pull requests
InitPoolResumed ==
    /\ InitCommon
    /\ df = PoolRepoNames
    /\ pool = "batch"
    /\ budget = MaxGood + 1
    /\ cache_file = CacheFileOf(MaxCacheLen, VALID_NOT_CODE)
    /\ max_workers = NWorkers

\* pool mode in which the main process keeps running and every submitted
\* process_repo_worker goes on until it returns
SpecPoolFair ==
    /\ InitPoolResumed
    /\ [][NextPool]_vars
    /\ WF_vars(MainPoolStep)
    /\ \A k \in 1..Len(PoolRepoNames) : WF_vars(WorkerStep(k))

\* ------------------------------------------------------------------ extraction alone
\* the summary blocks a Maven module may print: (tests run, failures, errors, skipped)
Blocks == { <<10, 1, 0, 2>>, <<3, 0, 1, 0>>, <<0, 0, 0, 0>>, <<4, 0, 0, 4>> }

\* the numbers a counter of the Gradle report may show
Counts == {0, 1, 10}

\* the outputs and reports extract_test_numbers is called on
ResultsOf(system) ==
    IF system = "maven" THEN SeqsUpTo(Blocks, MaxBlocks)
    ELSE {<<>>} \cup { <<n>> : n \in Counts }
           \cup { nf \in Counts \X Counts : nf[2] <= nf[1] }

\* the orders the blocks of an output may come in
Reorderings(found) ==
    LET n == Len(found)
        perms == { q \in [1..n -> 1..n] : \A i, j \in 1..n : q[i] = q[j] => i = j }
    IN { [i \in 1..n |-> found[q[i]]] : q \in perms }

\* one call of extract_test_numbers on the results, with what it leaves in the updates
Extraction(next_pc) ==
    LET x == ExtractTestNumbers(build_handler, updates[build_handler].tests, test_results')
    IN /\ updates' = [updates EXCEPT ![build_handler].tests = x.tests]
       /\ exc' = IF x.raises THEN "NoTestResultsToExtractError" ELSE "none"
       /\ pc' = next_pc
       /\ UNCHANGED << batch_vars, budget, already_seen_prs, dataset, repo_i, pr_i,
                       pull_vars, container, alarm, committed, manifest, og_content,
                       already_injected, report_i, run, parallel_vars, exec_output,
                       test_output, checkout >>

\* extract_test_numbers on the output of the test command
ExtractOnce ==
    /\ pc = "extract"
    /\ UNCHANGED test_results
    /\ Extraction("extracted")

\* extract_test_numbers once more on the same output, by the same handler
ExtractAgain ==
    /\ pc = "extracted"
    /\ UNCHANGED test_results
    /\ Extraction("extracted_twice")

\* extract_test_numbers on an output with the same blocks in another order
ExtractReordered ==
    /\ pc = "extracted"
    /\ build_handler = "maven"
    /\ test_results' \in Reorderings(test_results) \ {test_results}
    /\ Extraction("extracted_reordered")

InitExtract ==
    /\ InitIdle
    /\ pc = "extract"
    /\ build_handler \in {"maven", "gradle"}
    /\ test_results \in ResultsOf(build_handler)
    /\ exec_output = <<>>
    /\ test_output = <<>>
    /\ checkout = NoCheckout
    /\ df = RepoNames
    /\ pool = "any"
    /\ budget = 0
    /\ cache_file = <<>>
    /\ max_workers = 0

NextExtract ==
    \/ ExtractOnce
    \/ ExtractAgain
    \/ ExtractReordered

SpecExtract == InitExtract /\ [][NextExtract]_vars

\* ------------------------------------------------------------------ clean_output alone
\* the markers the two passes insert
DOWNLOAD_MARKER == "[CRAB] Downloading stuff"
LICENSES_MARKER == "[CRAB] List of all the unapproved licenses..."

LICENSES_WARNING == "[WARNING] Files with unapproved licenses:"

\* the lines a command may print; output.decode().split("\n") gives them, "\n".join
\* puts them together again
OutputLines ==
    { "[INFO] Downloading from central: a.pom", "[INFO] Downloaded from central: a.pom",
      LICENSES_WARNING, "  ?/.m2/repository/a.jar", "[INFO] BUILD SUCCESS",
      DOWNLOAD_MARKER, LICENSES_MARKER }

\* re.match(r"\[INFO\] Download(ing|ed) from", line)
IsDownload(line) ==
    line \in { "[INFO] Downloading from central: a.pom",
               "[INFO] Downloaded from central: a.pom" }

\* re.match(r"\[WARNING\] Files with unapproved licenses:", line)
IsWarning(line) == line = LICENSES_WARNING

\* re.match(r"\s+\?\/\.m2\/repository", line)
IsLicensePath(line) == line = "  ?/.m2/repository/a.jar"

RECURSIVE MergeDownloadLoop(_, _, _)
\* the loop of merge_download_lines over the lines left, with its flag and its list
MergeDownloadLoop(lines, downloading_block, cleaned_lines) ==
    IF lines = <<>> THEN cleaned_lines
    ELSE IF IsDownload(Head(lines))
      THEN MergeDownloadLoop(Tail(lines), TRUE,
                             IF downloading_block THEN cleaned_lines
                             ELSE Append(cleaned_lines, DOWNLOAD_MARKER))
    ELSE MergeDownloadLoop(Tail(lines), FALSE, Append(cleaned_lines, Head(lines)))

\* a pass that puts the marker in the place of every download line
MarkEveryDownload(lines) ==
    [ i \in 1..Len(lines) |-> IF IsDownload(lines[i]) THEN DOWNLOAD_MARKER ELSE lines[i] ]

\* merge_download_lines
MergeDownloadLines(lines) == MergeDownloadLoop(lines, FALSE, <<>>)

RECURSIVE MergeLicencesLoop(_, _, _)
\* the loop of merge_unapproved_licences over the lines left, with its flag and its list
MergeLicencesLoop(lines, licenses_block, cleaned_lines) ==
    IF lines = <<>> THEN cleaned_lines
    ELSE LET line == Head(lines)
             block == IF IsWarning(line) THEN TRUE
                      ELSE IF licenses_block /\ ~IsLicensePath(line) THEN FALSE
                      ELSE licenses_block
             with_warning == IF IsWarning(line)
                               THEN cleaned_lines \o <<line, LICENSES_MARKER>>
                               ELSE cleaned_lines
         IN MergeLicencesLoop(Tail(lines), block,
                              IF block THEN with_warning ELSE Append(with_warning, line))

\* merge_unapproved_licences
MergeUnapprovedLicences(lines) == MergeLicencesLoop(lines, FALSE, <<>>)

\* clean_output, on the lines and to the lines
CleanOutput(lines) == MergeUnapprovedLicences(MergeDownloadLines(lines))

clean_unchanged ==
    << exc, batch_vars, budget, already_seen_prs, dataset, repo_i, pr_i, pull_vars,
       container, alarm, updates, committed, manifest, og_content, already_injected,
       report_i, test_results, run, parallel_vars, checkout >>

\* test_repo: output = clean_output(exec_result.output), the text that is stored in
\* the error and handed to extract_test_numbers
CleanExecOutput ==
    /\ pc = "exec_result"
    /\ test_output' = CleanOutput(exec_output)
    /\ pc' = "cleaned"
    /\ UNCHANGED << exec_output, clean_unchanged >>

\* clean_output on a text that clean_output returned
CleanAgain ==
    /\ pc = "cleaned"
    /\ test_output' = CleanOutput(test_output)
    /\ pc' = "cleaned_twice"
    /\ UNCHANGED << exec_output, clean_unchanged >>

InitClean ==
    /\ InitIdle
    /\ pc = "exec_result"
    /\ build_handler = "maven"
    /\ test_results = <<>>
    /\ exec_output \in SeqsUpTo(OutputLines, MaxLines)
    /\ test_output = <<>>
    /\ checkout = NoCheckout
    /\ df = RepoNames
    /\ pool = "any"
    /\ budget = 0
    /\ cache_file = <<>>
    /\ max_workers = 0

NextClean ==
    \/ CleanExecOutput
    \/ CleanAgain

SpecClean == InitClean /\ [][NextClean]_vars

\* ------------------------------------------------------------------ get_build_handler alone
\* the files a directory of a checkout may hold
RootFiles == {"pom.xml", "build.gradle", "build.xml"}

\* the directories get_build_handler may be called on: a directory or not, the files at
\* its root, the build files one level down
Checkouts ==
    [ isdir : BOOLEAN, root : SUBSET RootFiles, nested : SUBSET {"pom.xml", "build.gradle"} ]

\* get_build_handler on the checkout: the handler it returns or the exception it raises
DetectBuildHandler ==
    /\ pc = "get_build_handler"
    /\ \E o \in GetBuildHandlerResults(checkout.isdir, checkout.root) :
         IF o \in SetupExceptions
           THEN exc' = o /\ UNCHANGED build_handler
           ELSE build_handler' = o /\ UNCHANGED exc
    /\ pc' = "detected"
    /\ UNCHANGED << batch_vars, budget, already_seen_prs, dataset, repo_i, pr_i,
                    commented_file_path, step, handler_vars, run, parallel_vars >>

\* the handler is taken into use: BuildHandler.set_client
SetClient ==
    /\ pc = "detected"
    /\ exc = "none"
    /\ pc' = "client_set"
    /\ UNCHANGED << exc, batch_vars, budget, already_seen_prs, dataset, repo_i, pr_i,
                    pull_vars, handler_vars, run, parallel_vars >>

InitDetect ==
    /\ InitIdle
    /\ pc = "get_build_handler"
    /\ build_handler = "none"
    /\ test_results = <<>>
    /\ exec_output = <<>>
    /\ test_output = <<>>
    /\ checkout \in Checkouts
    /\ df = RepoNames
    /\ pool = "any"
    /\ budget = 0
    /\ cache_file = <<>>
    /\ max_workers = 0

NextDetect ==
    \/ DetectBuildHandler
    \/ SetClient

SpecDetect == InitDetect /\ [][NextDetect]_vars

\* ------------------------------------------------------------------ properties
\* the steps of process_pull between the placeholder entry and its return
InRunPcs ==
    { "get_review_comments", "setup", "get_build_handler", "non_code_check", "enter",
      "check_for_tests", "compile", "compile_exec", "test", "test_exec",
      "generate_coverage", "inject", "restore", "check_coverage", "try_end",
      "clean_repo", "reset_repo", "exit_kill", "exit_remove", "after_with" }

\* the steps of process_pull after the except/else of the build steps
AfterTryPcs ==
    { "clean_repo", "reset_repo", "exit_kill", "exit_remove", "after_with", "pull_return" }

StartedPhases == { run.started[i] : i \in 1..Len(run.started) }

\* the reasons of the setup and build taxonomy, and the reasons of a success
Taxonomy == { ReasonForFailure(k) : k \in SetupExceptions \cup HandlerExceptions }

SuccessReasons == {VALID, VALID_NOT_COVERED, VALID_NOT_CODE}

\* C1: when process_pull is left, by a return or by any exception, the container it
\* started has been killed and removed.
C1_ContainerRemovedOnExit ==
    pc = "pull_return" => container \in {"none", "removed"}

C3_OneOutcomePerEntry ==
    (pc = "done" /\ exc # "Interrupt") =>
        /\ \A i, j \in 1..Len(output) :
             (output[i].repo = output[j].repo /\ output[i].pr_number = output[j].pr_number)
                 => i = j
        /\ \A i \in 1..Len(output) :
             output[i].reason_for_failure \in Taxonomy \cup SuccessReasons

\* C4: the alarm is armed only while the compile or the test command runs; a command
\* that timed out made its handler method return, with the timeout written to updates,
\* and raised neither FailedToCompileError nor FailedToTestError nor anything else.
C4_TimeoutIsSwallowed ==
    /\ alarm # 0 => pc \in {"compile_exec", "test_exec"}
    /\ "compile" \in run.timeouts =>
         /\ "compile" \in run.returned
         /\ updates[build_handler].compiled_successfully = "False"
         /\ updates[build_handler].error_msg \in {COMPILE_TIMEOUT_MSG, TEST_TIMEOUT_MSG}
         /\ dataset[cur].last_cmd_error_msg # "FailedToCompileError"
         /\ pc \in {"test", "test_exec"} => exc = "none"
    /\ "test" \in run.timeouts =>
         /\ "test" \in run.returned
         /\ updates[build_handler].tested_successfully = "False"
         /\ updates[build_handler].error_msg = TEST_TIMEOUT_MSG
         /\ dataset[cur].last_cmd_error_msg # "FailedToTestError"
         /\ pc = "generate_coverage" => exc = "none"

\* both commands timed out, both methods returned, the alarm is off
C4_Witness ==
    /\ run.timeouts = {"compile", "test"}
    /\ pc = "generate_coverage"
    /\ run.n_cov = 0
    /\ alarm = 0

\* C5: the entry of a run whose compile or test timed out has an outcome that no run
\* without a timeout has: neither a reason of the taxonomy nor a success reason.
C5_TimeoutRecordedInEntry ==
    (pc = "pull_return" /\ exc = "none" /\ run.timeouts # {}) =>
        dataset[cur].reason_for_failure \notin Taxonomy \cup SuccessReasons

\* C6: a run whose commented files are all not .java files does not start the
\* detection of the build system, and does not end with the reason of a missing
\* build file.
C6_NonCodeSkipsDetection ==
    ( /\ run.started # <<>>
      /\ dataset[cur].comments # <<>>
      /\ \A i \in 1..Len(dataset[cur].comments) : ~EndsWithJava(dataset[cur].comments[i]) )
    => /\ "detect" \notin StartedPhases
       /\ dataset[cur].reason_for_failure # ReasonForFailure("CantFindBuildFile")

\* C7: one run executes the compile command and the test command at most once each,
\* calls the injector at most once and executes the coverage command at most twice;
\* the second execution follows a failed first one and the injector; when the second
\* fails as well the entry gets the reason of CantExecJacoco.
C7_AtMostOnce ==
    /\ run.n_compile <= 1
    /\ run.n_test <= 1
    /\ run.n_inject <= 1
    /\ run.n_cov <= 2
    /\ Len(run.cov_exits) = run.n_cov
    /\ run.n_cov = 2 => run.cov_exits[1] = "exitN" /\ run.n_inject = 1
    /\ (run.cov_exits = <<"exitN", "exitN">> /\ pc \in AfterTryPcs) =>
         /\ dataset[cur].reason_for_failure = ReasonForFailure("CantExecJacoco")
         /\ dataset[cur].successful = "False"

\* compile and test timed out and ran once; the coverage command failed twice
C7_Witness ==
    /\ pc = "pull_return"
    /\ run.timeouts = {"compile", "test"}
    /\ run.n_compile = 1
    /\ run.n_test = 1
    /\ run.cov_exits = <<"exitN", "exitN">>

C9_SignaturePresentReraises ==
    ( /\ pc \in {"check_coverage", "try_end"}
      /\ build_handler # "none"
      /\ run.n_cov >= 1
      /\ run.cov_exits[1] = "exitN"
      /\ HasSignature(build_handler, run.cov_before) )
    => manifest = run.cov_before /\ run.cov_result # "ok"

\* C10: the cache is what was loaded; no step of process_pull runs for a pull request
\* of the cache; from the preload on the dataset holds each cached entry once, as it
\* was loaded, and so does the output when the batch is over.
C10_CachedPairsSkipped ==
    /\ pc # "main" => cache = BuildCache(FromJson(cache_file))
    /\ pc \in InRunPcs => ~InCache(cache, df[repo_i], pr_i)
    /\ pc \notin {"main", "process_repos"} =>
         \A r \in DOMAIN cache : \A n \in DOMAIN cache[r] :
            /\ Cardinality({ i \in 1..Len(dataset) :
                               dataset[i].repo = r /\ dataset[i].pr_number = n }) = 1
            /\ \E i \in 1..Len(dataset) : dataset[i] = cache[r][n]
    /\ pc = "done" =>
         \A r \in DOMAIN cache : \A n \in DOMAIN cache[r] :
            /\ Cardinality({ i \in 1..Len(output) :
                               output[i].repo = r /\ output[i].pr_number = n }) = 1
            /\ \E i \in 1..Len(output) : output[i] = cache[r][n]

\* a resumed batch that skipped its cached pull request and verified another one of
\* the same repository
C10_Witness ==
    /\ pc = "done"
    /\ exc # "Interrupt"
    /\ \E r \in DOMAIN cache :
         /\ DOMAIN cache[r] # {}
         /\ \E i \in 1..Len(output) :
              /\ output[i].repo = r
              /\ output[i].pr_number \notin DOMAIN cache[r]
              /\ output[i].reason_for_failure = VALID

\* the pairs of the cache file whose entry is the placeholder
PlaceholderPairs ==
    { <<cache_file[i].repo, cache_file[i].pr_number>> :
        i \in { j \in 1..Len(cache_file) : cache_file[j].reason_for_failure = PLACEHOLDER } }

C12_InFlightAbsent ==
    (pc = "done" /\ exc = "Interrupt") =>
        \A i \in 1..Len(output) : output[i].reason_for_failure # PLACEHOLDER

\* C17: at most one build command executes in the container at a time: the compile
\* command is over when the test command is sent, the test command is over when the
\* coverage command is sent.
C17_OneCommandAtATime ==
    /\ Cardinality(run.executing) <= 1
    /\ pc = "test" => run.executing = {}
    /\ pc = "generate_coverage" => run.executing = {}

\* C19: a pull request whose verification ended with a failure of git, of a build
\* command or of a parser, recorded or not, leaves process_pull towards process_repo,
\* which goes on with the next pull request of the same repository.
C19_FailureIsLocal ==
    [][ /\ (pc \in InRunPcs /\ pc' \notin InRunPcs) => pc' = "pull_return"
        /\ (pc = "pull_return" /\ exc # "Interrupt") =>
              /\ pc' = "prs_loop"
              /\ pr_i' = pr_i + 1
              /\ repo_i' = repo_i
              /\ exc' = "none"
              /\ dataset' = dataset ]_vars

\* the first pull request failed to compile, the second one is handed to process_pull
C19_Witness ==
    /\ pc = "process_pull"
    /\ pr_i = 2
    /\ dataset # <<>>
    /\ dataset[cur].pr_number = 1
    /\ dataset[cur].last_cmd_error_msg = "FailedToCompileError"

\* C20: every setup step runs at most once; when a setup step or get_build_handler
\* raises a SetupException, process_pull returns at once: no further step, no
\* container, no build command, and the entry is unsuccessful with the reason of the
\* exception.
C20_SetupErrorAbortsPull ==
    /\ run.n_setup <= N_SETUP_STEPS
    /\ pc = "setup" => run.n_setup = step - 1
    /\ ( /\ run.entered
         /\ run.raised_in \in {"setup", "detect"}
         /\ dataset[cur].last_cmd_error_msg \in SetupExceptions )
       => /\ pc = "pull_return"
          /\ exc = "none"
          /\ container = "none"
          /\ run.started[Len(run.started)] = run.raised_in
          /\ run.raised_in = "setup" => run.n_setup = step
          /\ run.n_compile = 0 /\ run.n_test = 0 /\ run.n_cov = 0
          /\ dataset[cur].successful = "False"
          /\ dataset[cur].reason_for_failure =
                ReasonForFailure(dataset[cur].last_cmd_error_msg)

\* the checkout of the base commit failed for good: the run is over at its sixth step
C20_Witness ==
    /\ pc = "pull_return"
    /\ run.raised_in = "setup"
    /\ step = 6
    /\ dataset[cur].last_cmd_error_msg = "CantCheckoutCommitError"

\* C13: the futures the completion loop took out of future_to_repo were finished before
\* the batch was aborted; every finished entry of theirs is in the output written at
\* exit.
C13_CompletedEntriesWritten ==
    pc = "done" =>
        \A k \in DOMAIN futures : k \notin future_to_repo =>
            \A i \in DOMAIN futures[k].entries :
                futures[k].entries[i].reason_for_failure # PLACEHOLDER
                    => futures[k].entries[i] \in Range(output)

\* C14: when process_repos_parallel is left with an exception, the entries of every
\* future still in future_to_repo are in the dataset.
C14_InFlightDrained ==
    (pc = "flush" /\ exc # "none") =>
        \A k \in future_to_repo : Range(futures[k].entries) \subseteq Range(dataset)

\* C15: at most max_workers futures are in flight; the repositories are submitted in
\* the order of df, none twice, none of the exclusion list; while the loop waits and
\* names are left, every worker slot is taken; a batch that ends without an exception
\* has submitted every repository of df that is not excluded.
C15_BoundedSubmission ==
    /\ Cardinality(future_to_repo) <= max_workers
    /\ Cardinality({ k \in DOMAIN futures : futures[k].state = "running" }) <= max_workers
    /\ \A k \in DOMAIN futures : futures[k].repo \notin EXCLUSION_LIST
    /\ \A j, k \in DOMAIN futures : j # k => futures[j].repo # futures[k].repo
    /\ Len(futures) = repo_names_iter - 1
    /\ \A k \in DOMAIN futures : futures[k].repo = repo_names[k]
    /\ (pc \in {"wait", "for_done"} /\ repo_names_iter <= Len(repo_names))
         => Cardinality(future_to_repo) = max_workers
    /\ (pc = "done" /\ exc = "none")
         => { futures[k].repo : k \in DOMAIN futures } = Range(df) \ EXCLUSION_LIST

\* the first future was handled and the third repository took its slot
C15_Witness ==
    /\ pc = "wait"
    /\ Len(futures) = NWorkers + 1
    /\ Cardinality(future_to_repo) = NWorkers
    /\ futures[Len(futures)].state = "running"

\* C16: no two futures work on the same repository, and at most one container bound
\* to the checkout of a repository is alive.
C16_OneEnvironmentPerCheckout ==
    /\ \A j, k \in DOMAIN futures : j # k => futures[j].repo # futures[k].repo
    /\ \A k \in DOMAIN futures : LiveContainers(k) <= 1

\* C18: while the completion loop runs, the file holds the dataset: the cached entries
\* and the entries of every future handled so far; no write takes an entry out of the
\* file.
C18_OutputOnlyGrows ==
    /\ [](pc \in {"wait", "for_done"} =>
            /\ output = dataset
            /\ Range(CacheValues(cache, SetToSeq(DOMAIN cache))) \subseteq Range(output)
            /\ \A k \in DOMAIN futures : k \notin future_to_repo
                   => Range(futures[k].entries) \subseteq Range(output))
    /\ [][Range(output) \subseteq Range(output')]_vars

\* a future with entries was handled in a batch that started with cached entries
C18_Witness ==
    /\ pc = "for_done"
    /\ DOMAIN cache # {}
    /\ \E k \in DOMAIN futures :
          /\ k \notin future_to_repo
          /\ futures[k].entries # <<>>
          /\ Len(output) > Len(futures[k].entries)

\* the reason strings of the HandlerException subclasses: one per kind, none shared
\* with a SetupException
HandlerReasonsDiffer ==
    /\ \A a, b \in HandlerExceptions : a # b => ReasonForFailure(a) # ReasonForFailure(b)
    /\ \A h \in HandlerExceptions, k \in SetupExceptions :
          ReasonForFailure(h) # ReasonForFailure(k)

\* C21: the reasons of the HandlerException subclasses differ from each other and from
\* the reasons of the SetupException subclasses; no HandlerException is pending after
\* the except clause of process_pull, which records its kind's reason with
\* successful = False, and the entry keeps that reason to the end of the run.
C21_HandlerErrorsRecorded ==
    /\ HandlerReasonsDiffer
    /\ pc \in AfterTryPcs \cup {"prs_loop", "flush", "done"} => exc \notin HandlerExceptions
    /\ (pc \in AfterTryPcs /\ run.entered /\ run.raised_in \in StartedPhases
          /\ dataset[cur].last_cmd_error_msg \in HandlerExceptions)
         => /\ dataset[cur].successful = "False"
            /\ dataset[cur].reason_for_failure =
                  ReasonForFailure(dataset[cur].last_cmd_error_msg)

\* the coverage check raised FileNotCovered and process_pull is left with its reason
C21_Witness ==
    /\ pc = "pull_return"
    /\ run.raised_in = "check_coverage"
    /\ dataset[cur].last_cmd_error_msg = "FileNotCovered"
    /\ dataset[cur].reason_for_failure = "Commented file from the PR was not covered"

\* C22: when process_pull is left after one of its checkouts moved HEAD,
\* reset_repo_to_latest_commit has run.
C22_CheckoutReset ==
    (pc = "pull_return" /\ run.checked_out) => run.reset

\* the manifest check_for_tests read names a test library / a keyword
HasLibrary == FirstIn(LIBRARIES, committed) # 0

HasKeyword == FirstIn(KEYWORDS, committed) # 0

CheckedForTests == \E i \in 1..Len(run.started) : run.started[i] = "check_for_tests"

\* C23: once check_for_tests has run on a manifest that names a test library, it has
\* returned without raising and recorded the library as the source of tests, whatever
\* keywords the manifest holds and whatever test directories exist.
C23_LibrarySucceeds ==
    (CheckedForTests /\ HasLibrary)
      => /\ "check_for_tests" \in run.returned
         /\ run.raised_in # "check_for_tests"
         /\ pc # "check_for_tests" /\ exc # "NoTestsFoundError"

\* a manifest with a keyword before the library: the check returned and the compile
\* step is next
C23_Witness ==
    /\ pc = "compile"
    /\ committed = <<"testImplementation", "junit">>
    /\ "check_for_tests" \in run.returned

\* C24: once check_for_tests has run on a manifest with a keyword and no test library,
\* it has raised NoTestsFoundError, also when a test directory exists.
C24_KeywordFails ==
    (CheckedForTests /\ HasKeyword /\ ~HasLibrary)
      => /\ run.raised_in = "check_for_tests"
         /\ "check_for_tests" \notin run.returned

\* C25: once check_for_tests has run on a manifest with neither a test library nor a
\* keyword, it has returned when the checkout holds one of the test directories and has
\* raised NoTestsFoundError only when it holds none.
C25_DirectoryDecides ==
    (CheckedForTests /\ ~HasKeyword /\ ~HasLibrary)
      => IF run.test_dirs # {}
           THEN "check_for_tests" \in run.returned /\ run.raised_in # "check_for_tests"
           ELSE run.raised_in = "check_for_tests"

\* the test command of this run exited with code 0 and left nothing to extract: no
\* summary block (Maven), no index.html or not both of its counters (Gradle)
NothingToExtract ==
    /\ run.test_exit = "exit0"
    /\ IF build_handler = "maven" THEN Len(test_results) = 0 ELSE Len(test_results) < 2

\* C26: when the test command exited with code 0 and left nothing to extract, test_repo
\* has raised NoTestResultsToExtractError and not returned; once the except clause of
\* process_pull is passed the entry is unsuccessful with the reason 'Failed to extract
\* test results'.
C26_NothingExtractedFails ==
    NothingToExtract
      => /\ run.raised_in = "test"
         /\ "test" \notin run.returned
         /\ pc = "try_end" => exc = "NoTestResultsToExtractError"
         /\ pc \in AfterTryPcs
              => /\ dataset[cur].successful = "False"
                 /\ dataset[cur].last_cmd_error_msg = "NoTestResultsToExtractError"
                 /\ dataset[cur].reason_for_failure = "Failed to extract test results"

\* a Gradle report with the tests counter and without the failures counter: the pull
\* request ends with 'Failed to extract test results'
C26_Witness ==
    /\ pc = "pull_return"
    /\ build_handler = "gradle"
    /\ run.test_exit = "exit0"
    /\ test_results = <<10>>
    /\ dataset[cur].reason_for_failure = "Failed to extract test results"

\* C27: from the Maven summary Tests run: 10, Failures: 1, Errors: 0, Skipped: 2 the
\* extraction yields n_tests 10, n_tests_passed 7, n_tests_failed 1, n_tests_errors 0,
\* n_tests_skipped 2.
C27_PassedExcludesSkipped ==
    (build_handler = "maven" /\ run.test_exit = "exit0"
       /\ test_results = << <<10, 1, 0, 2>> >>)
      => updates["maven"].tests = <<10, 7, 1, 0, 2>>

RECURSIVE SumOver(_, _, _)
\* the sum of column k over the blocks with their index in S, in no particular order
SumOver(blocks, S, k) ==
    IF S = {} THEN 0
    ELSE LET i == CHOOSE j \in S : TRUE
         IN blocks[i][k] + SumOver(blocks, S \ {i}, k)

\* the component-wise sums of the blocks: run, passed (run less failures and errors,
\* block by block), failures, errors, skipped
ComponentSums(blocks) ==
    LET all(k) == SumOver(blocks, DOMAIN blocks, k)
    IN << all(1), all(1) - (all(2) + all(3)), all(2), all(3), all(4) >>

ExtractedPcs == {"extracted", "extracted_twice", "extracted_reordered"}

\* C28: whatever the blocks of a Maven output, after one extraction, after a second one
\* from the same output and after one from the same blocks in another order, the totals
\* are the component-wise sums of the blocks, and every order of the blocks gives them.
C28_MavenTotalsAreSums ==
    (build_handler = "maven" /\ pc \in ExtractedPcs)
      => /\ updates["maven"].tests = ComponentSums(test_results)
         /\ \A q \in Reorderings(test_results) :
               MavenTestNumbers(updates["maven"].tests, q).tests = updates["maven"].tests

\* three different blocks, extracted a second time: the totals are those of one extraction
C28_Witness ==
    /\ pc = "extracted_twice"
    /\ build_handler = "maven"
    /\ test_results = << <<10, 1, 0, 2>>, <<3, 0, 1, 0>>, <<4, 0, 0, 4>> >>
    /\ updates["maven"].tests = <<17, 15, 1, 1, 6>>

\* extract_test_numbers of the Gradle handler has run: alone, or in test_repo after the
\* test command exited with code 0
GradleExtracted ==
    /\ build_handler = "gradle"
    /\ pc \in ExtractedPcs \/ run.test_exit = "exit0"

\* C29: after an extraction by the Gradle handler, whether it raised or not,
\* n_tests_errors and n_tests_skipped are -1; when the report has both counters, it did
\* not raise, n_tests and n_tests_failed are the counters and n_tests_passed is their
\* difference.
C29_GradleSentinels ==
    GradleExtracted
      => LET tests == updates["gradle"].tests
         IN /\ tests[4] = -1 /\ tests[5] = -1
            /\ Len(test_results) = 2
                 => /\ exc # "NoTestResultsToExtractError"
                    /\ tests[1] = test_results[1]
                    /\ tests[3] = test_results[2]
                    /\ tests[2] = tests[1] - tests[3]

\* a report with 10 tests and 1 failure, extracted twice
C29_Witness ==
    /\ pc = "extracted_twice"
    /\ build_handler = "gradle"
    /\ test_results = <<10, 1>>
    /\ updates["gradle"].tests = <<10, 9, 1, -1, -1>>

\* the error check_coverage was left with, before and after the except clause
CoverageError ==
    IF pc = "try_end" THEN exc
    ELSE IF dataset[cur].successful = "False" THEN dataset[cur].last_cmd_error_msg
    ELSE "none"

InLicenseList(lines, i) ==
    /\ IsLicensePath(lines[i])
    /\ \E w \in 1..(i - 1) :
         /\ IsWarning(lines[w])
         /\ \A j \in (w + 1)..(i - 1) : IsLicensePath(lines[j])

\* what line i of the lines becomes
CleanedLine(lines, i) ==
    IF IsDownload(lines[i])
      THEN IF i > 1 /\ IsDownload(lines[i - 1]) THEN <<>> ELSE <<DOWNLOAD_MARKER>>
    ELSE IF IsWarning(lines[i]) THEN <<lines[i], LICENSES_MARKER>>
    ELSE IF InLicenseList(lines, i) THEN <<>>
    ELSE <<lines[i]>>

RECURSIVE CleanedUpTo(_, _)
CleanedUpTo(lines, n) ==
    IF n = 0 THEN <<>> ELSE CleanedUpTo(lines, n - 1) \o CleanedLine(lines, n)

\* C31: the cleaned text is the lines of the output in their order, each kept as it is
\* but for: a download line, which gives the marker if it is the first of its run and
\* nothing otherwise; the licenses warning, which is followed by one marker; a line of
\* the list after the warning, which is dropped.  An output without download line and
\* without warning comes back as it was.
C31_CleanKeepsOtherLines ==
    pc = "cleaned"
      => /\ test_output = CleanedUpTo(exec_output, Len(exec_output))
         /\ (\A i \in DOMAIN exec_output :
                ~IsDownload(exec_output[i]) /\ ~IsWarning(exec_output[i]))
              => test_output = exec_output

\* two download lines, a line, a warning with a list of one: one marker for the run,
\* the line, the warning and one marker for the list
C31_Witness ==
    /\ pc = "cleaned"
    /\ exec_output =
         << "[INFO] Downloading from central: a.pom", "[INFO] Downloaded from central: a.pom",
            LICENSES_WARNING, "  ?/.m2/repository/a.jar" >>
    /\ test_output = << DOWNLOAD_MARKER, LICENSES_WARNING, LICENSES_MARKER >>

\* C32: the text extract_test_numbers is given is the output of the test command as it
\* was printed, not the cleaned one.
C32_ExtractorGetsRawOutput ==
    pc = "cleaned" => test_output = exec_output

\* C40: clean_output applied to a text clean_output returned gives that text back.
C40_CleanIsIdempotent ==
    pc = "cleaned_twice" => test_output = CleanOutput(exec_output)

\* the build files at the root of the checkout
RootBuildFiles == checkout.root \cap {"pom.xml", "build.gradle"}

Detected == pc \in {"detected", "client_set"}

C34_HandlerOwnsUpdates ==
    pc = "non_code_check" => updates[build_handler] = NoUpdates

\* the pull request at hand has comments, all of them on files that are not .java files
NonCodePull ==
    /\ pc \in InRunPcs \cup {"pull_return"}
    /\ run.started # <<>>
    /\ dataset[cur].comments # <<>>
    /\ \A i \in 1..Len(dataset[cur].comments) : dataset[cur].comments[i].ext # ".java"

\* C35: in the run of a pull request whose commented files are all not .java files no
\* container is started, none of check_for_tests, compile, test, coverage generation,
\* coverage check and clean_repo is started and no command is sent; when the setup
\* steps and get_build_handler returned, the run ends with is_code_related False,
\* successful True and the reason "Valid PR! But isn't code related though.".
C35_NonCodeRunsNothing ==
    NonCodePull
      => /\ container = "none"
         /\ StartedPhases \subseteq {"setup", "detect"}
         /\ run.n_compile = 0 /\ run.n_test = 0 /\ run.n_cov = 0 /\ run.n_inject = 0
         /\ run.executing = {}
         /\ pc \notin { "enter", "check_for_tests", "compile", "compile_exec", "test",
                        "test_exec", "generate_coverage", "inject", "restore",
                        "check_coverage", "try_end", "clean_repo", "reset_repo",
                        "exit_kill", "exit_remove", "after_with" }
         /\ (pc = "pull_return" /\ "detect" \in run.returned)
              => /\ run.non_code
                 /\ dataset[cur].is_code_related = "False"
                 /\ dataset[cur].successful = "True"
                 /\ dataset[cur].reason_for_failure = VALID_NOT_CODE

\* a pull request commented on README.md in a Maven checkout: process_pull is left
\* after the check of the commented files
C35_Witness ==
    /\ NonCodePull
    /\ pc = "pull_return"
    /\ build_handler = "maven"
    /\ "detect" \in run.returned
    /\ dataset[cur].reason_for_failure = VALID_NOT_CODE

\* C37: an entry that ends with successful True and is_code_related True comes from a
\* run in which check_for_tests returned and the compile command and the test command
\* both ran to completion with exit code 0, neither of them cut by the alarm.
C37_SuccessMeansBuildPassed ==
    (/\ pc = "pull_return"
     /\ run.started # <<>>
     /\ dataset[cur].successful = "True"
     /\ dataset[cur].is_code_related = "True")
      => /\ "check_for_tests" \in run.returned
         /\ "compile" \in run.returned
         /\ "test" \in run.returned
         /\ run.test_exit = "exit0"
         /\ run.timeouts = {}

\* process_pull returned, without an exception, from a run on a code-related pull request
\* that it marked successful
ReturnedSuccessful ==
    /\ pc = "pull_return"
    /\ exc = "none"
    /\ run.started # <<>>
    /\ dataset[cur].is_code_related = "True"
    /\ dataset[cur].successful = "True"

C39_NoDuplicateEntries ==
    \A i, j \in 1..Len(dataset) :
        i # j => /\ dataset[i].id # dataset[j].id
                 /\ <<dataset[i].repo, dataset[i].pr_number>>
                       # <<dataset[j].repo, dataset[j].pr_number>>

\* the batch was aborted with a cache loaded, and the except clause added the entries of
\* a future that was still in flight after those of the cache and of a finished future
C39_Witness ==
    /\ pc = "flush"
    /\ exc # "none"
    /\ cache_file # <<>>
    /\ Len(dataset) >= 3
    /\ \E k \in future_to_repo :
          /\ futures[k].entries # <<>>
          /\ Range(futures[k].entries) \subseteq Range(dataset)
    /\ \E k \in DOMAIN futures :
          /\ k \notin future_to_repo
          /\ futures[k].entries # <<>>
          /\ Range(futures[k].entries) \subseteq Range(dataset)

\* the completion loop is over: nothing is in future_to_repo, every repository of
\* repo_names was submitted and has returned, the entries of every future are in the
\* dataset and free_positions holds every position again
LoopCompleted ==
    /\ pc \in {"executor_exit", "flush", "done"}
    /\ future_to_repo = {}
    /\ { futures[k].repo : k \in DOMAIN futures } = Range(repo_names)
    /\ \A k \in DOMAIN futures :
          /\ futures[k].state = "finished"
          /\ Range(futures[k].entries) \subseteq Range(dataset)
    /\ Range(free_positions) = 1..max_workers

====
